---- MODULE Spec2Model ----
(***************************************************************************)
(* Participation reconciler of the volunteer/event application.            *)
(*                                                                         *)
(* The model follows CaptainDashboard (src/src/pages/Captain/              *)
(* AvaliarEquipe.tsx): fetchVolunteerData reads three source collections   *)
(* of one user from the hosted store, normalises them, collapses them to   *)
(* one participation per event and derives the statistics; the mutating    *)
(* handlers write to the store and then re-run fetchVolunteerData.         *)
(*                                                                         *)
(* Time is counted in hours since 00:00 UTC of day 0.  An event_date is a  *)
(* calendar day; new Date('YYYY-MM-DD') is 00:00 UTC of that day.          *)
(***************************************************************************)
EXTENDS Integers, Sequences, FiniteSets, TLC

VARIABLES
    team_members,        \* store: rows of table team_members of the user (fetch order)
    teams,               \* store: rows of table teams with captain_id = user
    event_registrations, \* store: rows of table event_registrations of the user
    terms_accepted,      \* store: the rows of event_registrations with terms_accepted
    evaluations,         \* store: ratings of the evaluations the user received
    event_terms_questions, \* store: the active questions of the terms of an event
    now,                 \* the current instant, new Date()
    tz,                  \* offset of the browser's local time from UTC, in hours
    loading,             \* React state: loading
    myParticipations,    \* React state: myParticipations
    stats,               \* React state: stats
    alerts,              \* messages shown by alert() since the last click
    errorsLogged,        \* messages written by console.error since the last click
    runs,                \* the executions of fetchVolunteerData, by origin
    handler,             \* the mutating handler in progress
    termsModal,          \* React state: termsModal (isOpen, eventId, questions)
    hasAccepted,         \* EventTermsModal state: hasAccepted
    hasScrolledToEnd,    \* EventTermsModal state: hasScrolledToEnd
    formResponses,       \* EventTermsModal state: formResponses
    formIsValid,         \* EventTermsModal state: formIsValid
    registrations,       \* SQL schema: rows of table registrations
    current_volunteers,  \* SQL schema: events.current_volunteers, by event
    secondHandler,       \* a handler clicked while the first one awaits its write
    procs,               \* overlapping calls of processEventRegistration
    all_event_registrations, \* store: the rows of event_registrations of one event
    captain_teams,       \* store: rows of table teams with their event and members
    evaluation_rows,     \* store: rows of table evaluations written by the captain
    teamEvents,          \* AvaliarEquipe state: teamEvents
    selectedEvent,       \* AvaliarEquipe state: selectedEvent
    evaluated,           \* AvaliarEquipe state: evaluated (the ids mapped to true)
    selectedVolunteer,   \* AvaliarEquipe state: selectedVolunteer
    submitting,          \* AvaliarEquipe state: submitting
    lookups,             \* AvaliarEquipe: the fetchEvaluations calls in flight
    submission           \* AvaliarEquipe: the handleSubmit call in flight

storeVars == <<team_members, teams, event_registrations, terms_accepted, evaluations,
               event_terms_questions>>

\* The terms modal: the parent's termsModal and the state of EventTermsModal.
modalVars == <<termsModal, hasAccepted, hasScrolledToEnd, formResponses, formIsValid>>

\* The tables of the first migration.
sqlVars == <<registrations, current_volunteers>>

\* The handlers that overlap: a second click, and concurrent registrations.
overlapVars == <<secondHandler, procs, all_event_registrations>>

\* The page AvaliarEquipe and the tables it reads and writes.
avaliarVars == <<captain_teams, evaluation_rows, teamEvents, selectedEvent, evaluated,
                 selectedVolunteer, submitting, lookups, submission>>

vars == <<storeVars, now, tz, loading, myParticipations, stats, alerts, errorsLogged,
          runs, handler, modalVars, sqlVars, overlapVars, avaliarVars>>

(***************************************************************************)
(* Bounds                                                                  *)
(***************************************************************************)
\* Largest number of source rows, over the three collections together.
MaxRecords == 3
\* Largest number of source rows of the store in the handler-level model.
MaxStoreRecords == 1
\* The current instant is noon (UTC) of one of the days 0..MaxDay.
MaxDay == 1
\* Largest number of evaluations the user received.
MaxEvaluations == 3
\* Largest count of rows that current_volunteers may lack before deletes stop.
MaxDeficit == 2

(***************************************************************************)
(* Data                                                                    *)
(***************************************************************************)
EventIds == {"e1", "e2"}
\* A nested event that is null or missing.
NoEvent == "null"
\* Table events: the calendar day of event_date, and the category.
EventDay == [e \in EventIds |-> IF e = "e1" THEN 0 ELSE 1]
EventCategory == [e \in EventIds |-> IF e = "e1" THEN "education" ELSE "social"]

DirectTeamName == "Inscrição Direta"
RealTeamName == "Equipe"

\* A row of team_members joined with its team and the team's event.
MemberRows ==
    [role_in_team : {"captain", "volunteer"},
     status       : {"active", "inactive"},
     team         : [name : {RealTeamName}, event : EventIds \cup {NoEvent}]]
\* A row of teams (captain_id = user) joined with its event.
TeamRows == [name : {RealTeamName}, event : EventIds \cup {NoEvent}]
\* A row of event_registrations joined with its event.
RegistrationRows ==
    [status : {"pending", "confirmed", "cancelled"},
     events : EventIds \cup {NoEvent}]

\* The stars of a rating: [1, 2, 3, 4, 5]
MaxRating == 5

\* The events that have an active row in event_terms.
EventHasTerms == [e \in EventIds |-> e = "e1"]

\* Questions of the terms of an event (QuestionWithOptions), with their options.
OptionIds == <<"o1", "o2">>
Question(id, required) ==
    [id |-> id, question_type |-> id, is_required |-> required,
     allow_multiple |-> (id = "multiple_choice"),
     options |-> IF id = "text" THEN <<>> ELSE OptionIds]
\* The lists of questions an event can have: each kind at most once, in
\* question_order.
RECURSIVE QuestionListsOf(_)
QuestionListsOf(kinds) ==
    IF kinds = <<>> THEN {<<>>}
    ELSE LET rest == QuestionListsOf(Tail(kinds))
         IN  rest \cup {<<Question(Head(kinds), r)>> \o qs : r \in BOOLEAN, qs \in rest}
QuestionLists == QuestionListsOf(<<"text", "single_choice", "multiple_choice">>)
\* The values of a textarea; undefined is the absent textResponse.
Texts == {"", " ", "a"}
Undefined == "undefined"
trim(t) == IF t = " " THEN "" ELSE t

Nows == {d * 24 + 12 : d \in 0..MaxDay}
TzOffsets == {0 - 3, 0}

RECURSIVE SeqsUpTo(_, _)
SeqsUpTo(S, n) ==
    IF n = 0 THEN {<<>>}
    ELSE LET shorter == SeqsUpTo(S, n - 1)
         IN  shorter \cup {Append(s, x) : s \in {t \in shorter : Len(t) = n - 1}, x \in S}

\* new Date('YYYY-MM-DD'): 00:00 UTC of the event's day; NaN for a missing date.
NaN == 0 - 1
DateOf(event) == IF event = NoEvent THEN NaN ELSE EventDay[event] * 24
\* a > b and a < b, a >= b on Dates: every comparison with NaN is false.
DateGt(a, b) == a # NaN /\ b # NaN /\ a > b
DateLt(a, b) == a # NaN /\ b # NaN /\ a < b
DateGe(a, b) == a # NaN /\ b # NaN /\ a >= b
\* currentDate.setHours(0, 0, 0, 0): the start of the local day of instant t.
StartOfLocalDay(t, offset) == ((t + offset) \div 24) * 24 - offset
\* The local calendar day of instant t.
LocalDay(t, offset) == (t + offset) \div 24

(***************************************************************************)
(* fetchVolunteerData: normalisation of the three sources                  *)
(***************************************************************************)
\* .in('status', ['pending', 'confirmed']) of the registrations query.
registrationsQuery(rows) ==
    SelectSeq([i \in 1..Len(rows) |-> [id |-> i, row |-> rows[i]]],
              LAMBDA r : r.row.status \in {"pending", "confirmed"})

processedParticipations(participationsData, t) ==
    [i \in 1..Len(participationsData) |->
        LET p == participationsData[i]
        IN  [id              |-> <<"tm", i>>,
             role_in_team    |-> p.role_in_team,
             status          |-> p.status,
             can_leave       |-> p.status = "active" /\ DateGt(DateOf(p.team.event), t),
             team            |-> p.team,
             registration_id |-> 0]]

teamsAsCaptainParticipations(teamsAsCaptainData) ==
    [i \in 1..Len(teamsAsCaptainData) |->
        LET team == teamsAsCaptainData[i]
        IN  [id              |-> <<"captain", i>>,
             role_in_team    |-> "captain",
             status          |-> "active",
             can_leave       |-> FALSE,
             team            |-> team,
             registration_id |-> 0]]

processedRegistrations(registrationsData) ==
    [i \in 1..Len(registrationsData) |->
        LET reg == registrationsData[i]
        IN  [id              |-> <<"reg", reg.id>>,
             role_in_team    |-> "volunteer",
             status          |-> "active",
             can_leave       |-> TRUE,
             team            |-> [name |-> DirectTeamName, event |-> reg.row.events],
             registration_id |-> reg.id]]

allPossibleParticipations(participationsData, registrationsData, teamsAsCaptainData, t) ==
    processedRegistrations(registrationsData)
        \o processedParticipations(participationsData, t)
        \o teamsAsCaptainParticipations(teamsAsCaptainData)

(***************************************************************************)
(* fetchVolunteerData: one participation per event                         *)
(***************************************************************************)
\* A JavaScript Map, as the sequence of its entries in insertion order.
MapHas(m, k) == \E i \in 1..Len(m) : m[i].key = k
MapGet(m, k) == m[CHOOSE i \in 1..Len(m) : m[i].key = k].value
\* Variant: set() forgets the entries of the other keys.
MapSet_only(m, k, v) == <<[key |-> k, value |-> v]>>

MapSet(m, k, v) ==
    IF MapHas(m, k)
    THEN [i \in 1..Len(m) |-> IF m[i].key = k THEN [key |-> k, value |-> v] ELSE m[i]]
    ELSE Append(m, [key |-> k, value |-> v])
MapValues(m) == [i \in 1..Len(m) |-> m[i].value]

\* Variant: the captain branch returns the lowest priority.
getPriority_captainLow(p) ==
    IF p.role_in_team = "captain" THEN 1
    ELSE IF p.team.name # DirectTeamName THEN 2
    ELSE 1

\* Variant: the test of the placeholder team name is inverted.
getPriority_nameInverted(p) ==
    IF p.role_in_team = "captain" THEN 3
    ELSE IF p.team.name = DirectTeamName THEN 2
    ELSE 1

getPriority(p) ==
    IF p.role_in_team = "captain" THEN 3
    ELSE IF p.team.name # DirectTeamName THEN 2
    ELSE 1

\* Variant: the record of lower priority replaces the entry.
replaces_lower(p, existing) == getPriority(p) < getPriority(existing)

\* The condition under which the record p replaces the entry of its event.
replaces(p, existing) == getPriority(p) > getPriority(existing)

\* Variant: the map is keyed by the participation id instead of the event id.
RECURSIVE uniqueParticipationsMap_byId(_)
uniqueParticipationsMap_byId(all) ==
    IF all = <<>> THEN <<>>
    ELSE LET m       == uniqueParticipationsMap_byId(SubSeq(all, 1, Len(all) - 1))
             p       == all[Len(all)]
             eventId == p.team.event
         IN  IF eventId = NoEvent THEN m
             ELSE IF ~MapHas(m, p.id) \/ replaces(p, MapGet(m, p.id))
                  THEN MapSet(m, p.id, p)
                  ELSE m

\* Variant: a record without event id is not skipped.
RECURSIVE uniqueParticipationsMap_noGuard(_)
uniqueParticipationsMap_noGuard(all) ==
    IF all = <<>> THEN <<>>
    ELSE LET m       == uniqueParticipationsMap_noGuard(SubSeq(all, 1, Len(all) - 1))
             p       == all[Len(all)]
             eventId == p.team.event
         IN  IF ~MapHas(m, eventId) \/ replaces(p, MapGet(m, eventId))
             THEN MapSet(m, eventId, p)
             ELSE m

RECURSIVE uniqueParticipationsMap(_)
uniqueParticipationsMap(all) ==
    IF all = <<>> THEN <<>>
    ELSE LET m       == uniqueParticipationsMap(SubSeq(all, 1, Len(all) - 1))
             p       == all[Len(all)]
             eventId == p.team.event
         IN  IF eventId = NoEvent THEN m
             ELSE IF ~MapHas(m, eventId) \/ replaces(p, MapGet(m, eventId))
                  THEN MapSet(m, eventId, p)
                  ELSE m

finalParticipations(all) == MapValues(uniqueParticipationsMap(all))

(***************************************************************************)
(* fetchVolunteerData: statistics                                          *)
(***************************************************************************)
activeParticipations(final, t, offset) ==
    Len(SelectSeq(final, LAMBDA p : p.status = "active"
                                    /\ DateGe(DateOf(p.team.event), StartOfLocalDay(t, offset))))

completedEvents(final, t) ==
    Len(SelectSeq(final, LAMBDA p : DateLt(DateOf(p.team.event), t)))

\* p.team?.event?.category || 'other'
CategoryOf(p) ==
    IF p.team.event = NoEvent THEN "other" ELSE EventCategory[p.team.event]

RECURSIVE categoryCount(_)
categoryCount(final) ==
    IF final = <<>> THEN <<>>
    ELSE LET m        == categoryCount(SubSeq(final, 1, Len(final) - 1))
             category == CategoryOf(final[Len(final)])
         IN  MapSet(m, category, (IF MapHas(m, category) THEN MapGet(m, category) ELSE 0) + 1)

\* The callback of reduce: (a, b) => a[1] > b[1] ? a : b
reduceStep(a, b) == IF a.value > b.value THEN a ELSE b

RECURSIVE reduce(_)
reduce(entries) ==
    IF Len(entries) = 1 THEN entries[1]
    ELSE reduceStep(reduce(SubSeq(entries, 1, Len(entries) - 1)), entries[Len(entries)])

bestCategory(final) ==
    IF Len(categoryCount(final)) > 0 THEN reduce(categoryCount(final)).key ELSE ""

RECURSIVE sumRatings(_)
sumRatings(evaluationsData) ==
    IF evaluationsData = <<>> THEN 0
    ELSE sumRatings(SubSeq(evaluationsData, 1, Len(evaluationsData) - 1))
         + evaluationsData[Len(evaluationsData)]

\* Math.round(x) for x = num / den >= 0: the nearest integer, a half goes up.
MathRound(num, den) == (2 * num + den) \div (2 * den)

\* Variant: no `evaluationsData.length > 0 ?` guard, 0 / 0 is NaN.
averageRating_noGuard(evaluationsData) ==
    IF Len(evaluationsData) = 0 THEN NaN
    ELSE MathRound(10 * sumRatings(evaluationsData), Len(evaluationsData))

\* Variant: Math.floor in the place of Math.round.
averageRating_floor(evaluationsData) ==
    IF Len(evaluationsData) = 0 THEN 0
    ELSE (10 * sumRatings(evaluationsData)) \div Len(evaluationsData)

\* avgRating and Math.round(avgRating * 10) / 10, counted in tenths.
averageRating(evaluationsData) ==
    IF Len(evaluationsData) > 0
    THEN MathRound(10 * sumRatings(evaluationsData), Len(evaluationsData))
    ELSE 0

computeStats(final, evaluationsData, t, offset) ==
    [totalParticipations  |-> Len(final),
     activeParticipations |-> activeParticipations(final, t, offset),
     completedEvents      |-> completedEvents(final, t),
     averageRating        |-> averageRating(evaluationsData),
     totalEvaluations     |-> Len(evaluationsData),
     bestCategory         |-> bestCategory(final)]

(***************************************************************************)
(* EventTermsModal: validation of the form                                 *)
(***************************************************************************)
\* answeredQuestionIds.has(id)
answered(responses, id) == \E i \in 1..Len(responses) : responses[i].questionId = id

\* responses.find(r => r.questionId === id), where there is one: the first.
find(responses, id) ==
    LET matching == {i \in 1..Len(responses) : responses[i].questionId = id}
    IN  responses[CHOOSE i \in matching : \A j \in matching : i <= j]

\* What the validation effect of EventTermsModal reports for one required
\* question: TRUE when it pushes an error.
questionError(question, responses) ==
    LET response == find(responses, question.id)
    IN  IF ~answered(responses, question.id) THEN TRUE
        ELSE IF question.question_type = "text"
        THEN response.textResponse = Undefined \/ trim(response.textResponse) = ""
        ELSE IF question.question_type \in {"multiple_choice", "single_choice"}
        THEN Len(response.selectedOptions) = 0
        ELSE FALSE

\* The validation effect: setFormIsValid(errors.length === 0).
validate(questions, responses) ==
    \A i \in 1..Len(questions) :
        questions[i].is_required => ~questionError(questions[i], responses)

(***************************************************************************)
(* Initial states                                                          *)
(***************************************************************************)
NoStats ==
    [totalParticipations  |-> 0,
     activeParticipations |-> 0,
     completedEvents      |-> 0,
     averageRating        |-> 0,
     totalEvaluations     |-> 0,
     bestCategory         |-> ""]

IdleRun == [pc |-> "idle", participationsData |-> <<>>, registrationsData |-> <<>>,
            teamsAsCaptainData |-> <<>>, failed |-> {}, final |-> <<>>]
RunIds == {"mount", "refresh", "overlap"}
NoWrite == <<"none", 0>>
IdleHandler == [pc |-> "idle", name |-> "none", caller |-> "none", event |-> NoEvent,
                existing |-> 0, write |-> NoWrite, result |-> "none"]
\* useState({ isOpen: false, eventId: '', ..., questions: [], loading: false })
ClosedTermsModal == [isOpen |-> FALSE, eventId |-> NoEvent, questions |-> <<>>]

\* The state of the component after construction (useState initial values).
InitUI ==
    /\ loading = TRUE
    /\ myParticipations = <<>>
    /\ stats = NoStats
    /\ alerts = {}
    /\ errorsLogged = {}
    /\ runs = [r \in RunIds |-> IdleRun]
    /\ handler = IdleHandler
    /\ termsModal = ClosedTermsModal
    /\ hasAccepted = FALSE
    /\ hasScrolledToEnd = FALSE
    /\ formResponses = <<>>
    /\ formIsValid = TRUE

\* The tables of the first migration, empty.
NoSql ==
    /\ registrations = {}
    /\ current_volunteers = [e \in EventIds |-> 0]

\* No second handler and no concurrent registration.
IdleProc == [pc |-> "idle", user |-> "none", existing |-> 0, alert |-> "none"]
IdleSecondHandler == [pc |-> "idle", event |-> NoEvent, result |-> "none"]
NoOverlap ==
    /\ secondHandler = IdleSecondHandler
    /\ procs = [p \in {"p1", "p2"} |-> IdleProc]
    /\ all_event_registrations = <<>>

\* AvaliarEquipe: useState initial values; no team and no evaluation stored.
NoSelection == "null"
\* useState<TeamEvent | null>(null): no event is selected.
NoSelectedEvent == [event_id |-> NoSelection, team_id |-> NoSelection, members |-> <<>>]
\* No insert of handleSubmit is awaited.
NoSubmission ==
    [volunteer_id |-> NoSelection, event_id |-> NoSelection, team_id |-> NoSelection,
     result |-> NoSelection]
\* event: null of a team row
NoTeamEvent == [id |-> NoSelection, status |-> NoSelection]
InitAvaliarUI ==
    /\ teamEvents = <<>>
    /\ selectedEvent = NoSelectedEvent
    /\ evaluated = {}
    /\ selectedVolunteer = NoSelection
    /\ submitting = FALSE
    /\ lookups = {}
    /\ submission = NoSubmission
NoAvaliar ==
    /\ captain_teams = <<>>
    /\ evaluation_rows = {}
    /\ InitAvaliarUI

\* The store holds at most n rows of the user.
StoreWithin(n) ==
    \E a \in 0..n :
      \E c \in 0..(n - a) :
        \E b \in 0..(n - a - c) :
          /\ team_members \in [1..a -> MemberRows]
          /\ event_registrations \in [1..b -> RegistrationRows]
          /\ teams \in [1..c -> TeamRows]

\* UNIQUE(user_id, event_id): the user has at most one row per event.
UniqueRegistrations ==
    \A i, j \in 1..Len(event_registrations) :
        (event_registrations[i].events = event_registrations[j].events
         /\ event_registrations[i].events # NoEvent) => i = j

(***************************************************************************)
(* SpecReconcile: one uninterrupted run of fetchVolunteerData in which     *)
(* every query succeeds, over every content of the store.                  *)
(***************************************************************************)
InitReconcile ==
    /\ StoreWithin(MaxRecords)
    /\ terms_accepted = 1..Len(event_registrations)
    /\ evaluations = <<>>
    /\ event_terms_questions = <<>>
    /\ NoSql
    /\ NoOverlap
    /\ NoAvaliar
    /\ now \in Nows
    /\ tz \in TzOffsets
    /\ InitUI

\* p.team.event.event_date is read without a guard while the statistics are
\* computed: an entry whose event is null makes the computation throw.
statsThrow(final) == \E i \in 1..Len(final) : final[i].team.event = NoEvent


fetchVolunteerData ==
    /\ runs["mount"].pc = "idle"
    /\ LET participationsData == team_members
           registrationsData  == registrationsQuery(event_registrations)
           teamsAsCaptainData == teams
           final == finalParticipations(
                        allPossibleParticipations(participationsData, registrationsData,
                                                  teamsAsCaptainData, now))
       IN  /\ myParticipations' = final
           /\ runs' = [runs EXCEPT !["mount"] = [IdleRun EXCEPT !.pc = "done"]]
           /\ IF statsThrow(final)
              THEN /\ errorsLogged' = errorsLogged \cup {"Erro ao carregar dados do voluntário"}
                   /\ UNCHANGED stats
              ELSE /\ stats' = computeStats(final, evaluations, now, tz)
                   /\ UNCHANGED errorsLogged
    /\ loading' = FALSE
    /\ UNCHANGED <<storeVars, now, tz, modalVars, sqlVars, overlapVars, avaliarVars, alerts, handler>>

NextReconcile == fetchVolunteerData

SpecReconcile == InitReconcile /\ [][NextReconcile]_vars

(***************************************************************************)
(* SpecVolunteer: one uninterrupted run of fetchVolunteerData of           *)
(* VolunteerDashboard, which reads the team memberships and the direct     *)
(* registrations of the user, over every content of the store.             *)
(***************************************************************************)
\* VolunteerDashboard: the direct registrations as participations.  The
\* joined event is read as registration.events?.[0].
VolunteerDashboard_processedRegistrations(registrationsData, t) ==
    [i \in 1..Len(registrationsData) |->
        LET registration == registrationsData[i]
            event == registration.row.events
        IN  [id              |-> <<"reg", registration.id>>,
             role_in_team    |-> "volunteer",
             status          |-> IF registration.row.status = "confirmed"
                                 THEN "active" ELSE "inactive",
             can_leave       |-> registration.row.status \in {"pending", "confirmed"}
                                 /\ DateGt(DateOf(event), t),
             team            |-> [name |-> DirectTeamName, event |-> event],
             registration_id |-> registration.id]]

\* VolunteerDashboard: [...processedParticipations, ...processedRegistrations]
VolunteerDashboard_allParticipations(participationsData, registrationsData, t) ==
    processedParticipations(participationsData, t)
        \o VolunteerDashboard_processedRegistrations(registrationsData, t)

\* VolunteerDashboard: the statistics.  The events of the model are published.
VolunteerDashboard_computeStats(all, evaluationsData, t) ==
    [totalParticipations  |-> Len(all),
     activeParticipations |-> Len(SelectSeq(all, LAMBDA p : p.status = "active")),
     completedEvents      |-> Len(SelectSeq(all, LAMBDA p : DateLt(DateOf(p.team.event), t))),
     averageRating        |-> averageRating(evaluationsData),
     totalEvaluations     |-> Len(evaluationsData),
     bestCategory         |-> bestCategory(all)]

InitVolunteer ==
    /\ StoreWithin(MaxRecords)
    /\ UniqueRegistrations
    /\ teams = <<>>
    /\ terms_accepted = 1..Len(event_registrations)
    /\ evaluations = <<>>
    /\ event_terms_questions = <<>>
    /\ NoSql
    /\ NoOverlap
    /\ NoAvaliar
    /\ now \in Nows
    /\ tz = 0
    /\ InitUI

VolunteerDashboard_fetchVolunteerData ==
    /\ runs["mount"].pc = "idle"
    /\ LET participationsData == team_members
           registrationsData  == registrationsQuery(event_registrations)
           allParticipations  == VolunteerDashboard_allParticipations(
                                     participationsData, registrationsData, now)
       IN  /\ myParticipations' = allParticipations
           /\ stats' = VolunteerDashboard_computeStats(allParticipations, evaluations, now)
    /\ runs' = [runs EXCEPT !["mount"] = [IdleRun EXCEPT !.pc = "done"]]
    /\ loading' = FALSE
    /\ UNCHANGED <<storeVars, now, tz, modalVars, sqlVars, overlapVars, avaliarVars, alerts, errorsLogged, handler>>

NextVolunteer == VolunteerDashboard_fetchVolunteerData

SpecVolunteer == InitVolunteer /\ [][NextVolunteer]_vars

(***************************************************************************)
(* SpecStats: one uninterrupted run of fetchVolunteerData over every list  *)
(* of evaluations the user received.                                       *)
(***************************************************************************)
InitStats ==
    /\ StoreWithin(MaxStoreRecords)
    /\ terms_accepted = 1..Len(event_registrations)
    /\ evaluations \in SeqsUpTo((1..MaxRating), MaxEvaluations)
    /\ event_terms_questions = <<>>
    /\ NoSql
    /\ NoOverlap
    /\ NoAvaliar
    /\ now \in {t \in Nows : t < 24}
    /\ tz = 0
    /\ InitUI

SpecStats == InitStats /\ [][NextReconcile]_vars

(***************************************************************************)
(* Spec: the dashboard with its asynchronous steps.  fetchVolunteerData    *)
(* runs query by query, each query may fail, and the mutating handlers     *)
(* write to the store and re-run fetchVolunteerData.                       *)
(***************************************************************************)
\* The handlers do not read the clock: one instant (noon of day 0, when the
\* event e1 is dated today and e2 tomorrow) and a browser in UTC.
Init ==
    /\ StoreWithin(MaxStoreRecords)
    /\ UniqueRegistrations
    /\ terms_accepted = 1..Len(event_registrations)
    /\ evaluations = <<>>
    /\ event_terms_questions = <<>>
    /\ NoSql
    /\ NoOverlap
    /\ NoAvaliar
    /\ now \in {t \in Nows : t < 24}
    /\ tz = 0
    /\ InitUI

\* fetchVolunteerData up to its first await: setLoading(true), events query sent.
\* While loading the page renders only its spinner: EventTermsModal is
\* unmounted and is mounted again later with its initial state.
StartRun(r) ==
    /\ runs' = [runs EXCEPT ![r] = [IdleRun EXCEPT !.pc = "events"]]
    /\ loading' = TRUE
    /\ hasAccepted' = FALSE
    /\ hasScrolledToEnd' = FALSE
    /\ formResponses' = <<>>
    /\ formIsValid' = validate(termsModal.questions, <<>>)
    /\ UNCHANGED termsModal

\* useEffect(() => { fetchVolunteerData() }, [fetchVolunteerData])
Mount ==
    /\ runs["mount"].pc = "idle"
    /\ StartRun("mount")
    /\ UNCHANGED <<storeVars, now, tz, sqlVars, overlapVars, avaliarVars, myParticipations, stats, alerts, errorsLogged, handler>>

\* The events query answers; on eventsError the function throws into its catch.
FetchEvents(r) ==
    /\ runs[r].pc = "events"
    /\ \E ok \in BOOLEAN :
        IF ok
        THEN /\ runs' = [runs EXCEPT ![r].pc = "team_members"]
             /\ UNCHANGED <<loading, errorsLogged>>
        ELSE /\ runs' = [runs EXCEPT ![r] = [IdleRun EXCEPT !.pc = "done"]]
             /\ errorsLogged' = errorsLogged \cup {"Erro ao carregar dados do voluntário"}
             /\ loading' = FALSE
    /\ UNCHANGED <<storeVars, now, tz, modalVars, sqlVars, overlapVars, avaliarVars, myParticipations, stats, alerts, handler>>

\* const { data: participationsData } = await ...from('team_members')...
\* A failed query answers data: null, which (participationsData || []) empties.
FetchTeamMembers(r) ==
    /\ runs[r].pc = "team_members"
    /\ \E ok \in BOOLEAN :
        runs' = [runs EXCEPT ![r].pc = "event_registrations",
                             ![r].participationsData = IF ok THEN team_members ELSE <<>>,
                             ![r].failed = IF ok THEN @ ELSE @ \cup {"team_members"}]
    /\ UNCHANGED <<storeVars, now, tz, modalVars, sqlVars, overlapVars, avaliarVars, loading, myParticipations, stats, alerts,
                   errorsLogged, handler>>

\* const { data: registrationsData } = await ...from('event_registrations')...
FetchRegistrations(r) ==
    /\ runs[r].pc = "event_registrations"
    /\ \E ok \in BOOLEAN :
        runs' = [runs EXCEPT ![r].pc = "teams",
                             ![r].registrationsData =
                                 IF ok THEN registrationsQuery(event_registrations) ELSE <<>>,
                             ![r].failed = IF ok THEN @ ELSE @ \cup {"event_registrations"}]
    /\ UNCHANGED <<storeVars, now, tz, modalVars, sqlVars, overlapVars, avaliarVars, loading, myParticipations, stats, alerts,
                   errorsLogged, handler>>

\* const { data: teamsAsCaptainData } = await ...from('teams')..., then the
\* synchronous normalisation and reconciliation up to setMyParticipations and
\* the evaluations query.
FetchTeams(r) ==
    /\ runs[r].pc = "teams"
    /\ \E ok \in BOOLEAN :
        LET teamsAsCaptainData == IF ok THEN teams ELSE <<>>
            final == finalParticipations(
                         allPossibleParticipations(runs[r].participationsData,
                                                   runs[r].registrationsData,
                                                   teamsAsCaptainData, now))
        IN  /\ runs' = [runs EXCEPT ![r].pc = "evaluations",
                                    ![r].teamsAsCaptainData = teamsAsCaptainData,
                                    ![r].failed = IF ok THEN @ ELSE @ \cup {"teams"},
                                    ![r].final = final]
            /\ myParticipations' = final
    /\ UNCHANGED <<storeVars, now, tz, modalVars, sqlVars, overlapVars, avaliarVars, loading, stats, alerts, errorsLogged, handler>>

\* The evaluations query answers (data: null when it fails): statistics,
\* setStats, finally setLoading(false).
FetchEvaluations(r) ==
    /\ runs[r].pc = "evaluations"
    /\ \E ok \in BOOLEAN :
        LET evaluationsData == IF ok THEN evaluations ELSE <<>>
        IN  IF statsThrow(runs[r].final)
            THEN /\ errorsLogged' = errorsLogged \cup {"Erro ao carregar dados do voluntário"}
                 /\ UNCHANGED stats
            ELSE /\ stats' = computeStats(runs[r].final, evaluationsData, now, tz)
                 /\ UNCHANGED errorsLogged
    /\ runs' = [runs EXCEPT ![r] = [IdleRun EXCEPT !.pc = "done"]]
    /\ loading' = FALSE
    /\ UNCHANGED <<storeVars, now, tz, modalVars, sqlVars, overlapVars, avaliarVars, myParticipations, alerts, handler>>

(***************************************************************************)
(* The mutating handlers                                                   *)
(***************************************************************************)


\* The page shows its controls only when loading is false, the open terms
\* modal covers them, and this model follows one handler at a time.
CanClick == loading = FALSE /\ handler.pc = "idle" /\ ~termsModal.isOpen

\* handleLeaveTeam(participation.id, team.name) on the i-th entry of the list,
\* whose button is rendered when can_leave holds; up to the awaited update.
handleLeaveTeam(i) ==
    /\ CanClick
    /\ i \in 1..Len(myParticipations)
    /\ myParticipations[i].can_leave
    /\ LET p == myParticipations[i]
       IN  IF p.id[1] = "reg"
           THEN IF p.registration_id = 0
                THEN /\ alerts' = {"Erro ao processar sua solicitação. Tente novamente."}
                     /\ UNCHANGED handler
                ELSE /\ handler' = [IdleHandler EXCEPT
                                       !.pc = "write", !.name = "handleLeaveTeam",
                                       !.event = p.team.event,
                                       !.write = <<"cancel_registration", p.registration_id>>]
                     /\ alerts' = {}
           ELSE /\ handler' = [IdleHandler EXCEPT
                                  !.pc = "write", !.name = "handleLeaveTeam",
                                  !.event = p.team.event,
                                  !.write = <<"leave_team", p.id[2]>>]
                /\ alerts' = {}
    /\ errorsLogged' = {}
    /\ UNCHANGED <<storeVars, now, tz, modalVars, sqlVars, overlapVars, avaliarVars, loading, myParticipations, stats, runs>>

\* handleCancelRegistration(event.id, event.title), up to the awaited update.
handleCancelRegistration(e) ==
    /\ CanClick
    /\ handler' = [IdleHandler EXCEPT
                      !.pc = "write", !.name = "handleCancelRegistration", !.event = e,
                      !.write = <<"cancel_registrations_of_event", e>>]
    /\ alerts' = {}
    /\ errorsLogged' = {}
    /\ UNCHANGED <<storeVars, now, tz, modalVars, sqlVars, overlapVars, avaliarVars, loading, myParticipations, stats, runs>>

registrationsOf(e) == {i \in 1..Len(event_registrations) : event_registrations[i].events = e}

(***************************************************************************)
(* EventTermsModal and TermsQuestionsForm                                  *)
(***************************************************************************)
\* Variant: the effect `if (isOpen) { setHasAccepted(false) ... }` is missing.
resetStates_none(questions) ==
    /\ UNCHANGED <<hasAccepted, hasScrolledToEnd, formResponses>>
    /\ formIsValid' = validate(questions, formResponses)

\* The effect on [isOpen, questions] of EventTermsModal, followed by the
\* validation effect over the emptied responses.
resetStates(questions) ==
    /\ hasAccepted' = FALSE
    /\ hasScrolledToEnd' = FALSE
    /\ formResponses' = <<>>
    /\ formIsValid' = validate(questions, <<>>)

\* setTermsModal({ isOpen: true, eventId, ..., questions: processedQuestions })
showTermsModal(e, questions) ==
    /\ termsModal' = [isOpen |-> TRUE, eventId |-> e, questions |-> questions]
    /\ resetStates(questions)

\* The controls of the open modal, one handler at a time.
CanUseModal == termsModal.isOpen /\ handler.pc = "idle"

\* onScroll of the content; hasReachedEnd is what the scroll position gives.
handleScroll ==
    /\ CanUseModal
    /\ \E hasReachedEnd \in BOOLEAN :
        hasScrolledToEnd' = (hasScrolledToEnd \/ hasReachedEnd)
    /\ UNCHANGED <<storeVars, now, tz, loading, myParticipations, stats, alerts, errorsLogged,
                   runs, handler, termsModal, hasAccepted, formResponses, formIsValid, sqlVars, overlapVars, avaliarVars>>

\* onChange of the checkbox, which is disabled until hasScrolledToEnd.
setHasAccepted(checked) ==
    /\ CanUseModal
    /\ hasScrolledToEnd
    /\ checked = ~hasAccepted
    /\ hasAccepted' = checked
    /\ UNCHANGED <<storeVars, now, tz, loading, myParticipations, stats, alerts, errorsLogged,
                   runs, handler, termsModal, hasScrolledToEnd, formResponses, formIsValid,
                   sqlVars, overlapVars, avaliarVars>>

\* updateResponse of TermsQuestionsForm: the updated list handed to onChange.
updateResponse(responses, questionId, selectedOptions, textResponse) ==
    LET updatedResponses == SelectSeq(responses, LAMBDA r : r.questionId # questionId)
    IN  IF Len(selectedOptions) > 0 \/ (textResponse # Undefined /\ textResponse # "")
        THEN Append(updatedResponses,
                    [questionId |-> questionId, selectedOptions |-> selectedOptions,
                     textResponse |-> textResponse])
        ELSE updatedResponses

\* getCurrentResponse(question.id)?.selectedOptions || []
selectedOptionsOf(responses, questionId) ==
    IF answered(responses, questionId)
    THEN find(responses, questionId).selectedOptions
    ELSE <<>>

includes(options, optionId) == \E i \in 1..Len(options) : options[i] = optionId

\* Variant: every question is treated as allowing several options.
newSelectedOptions_multiple(question, selectedOptions, optionId, checked) ==
    IF checked THEN Append(selectedOptions, optionId)
    ELSE SelectSeq(selectedOptions, LAMBDA id : id # optionId)

\* handleOptionChange: the options selected after the change.
newSelectedOptions(question, selectedOptions, optionId, checked) ==
    IF question.allow_multiple
    THEN IF checked THEN Append(selectedOptions, optionId)
         ELSE SelectSeq(selectedOptions, LAMBDA id : id # optionId)
    ELSE IF checked THEN <<optionId>> ELSE <<>>

\* setFormResponses(responses) and the validation effect that follows it.
handleFormChange(responses) ==
    /\ formResponses' = responses
    /\ formIsValid' = validate(termsModal.questions, responses)
    /\ UNCHANGED <<storeVars, now, tz, loading, myParticipations, stats, alerts, errorsLogged,
                   runs, handler, termsModal, hasAccepted, hasScrolledToEnd, sqlVars, overlapVars, avaliarVars>>

\* onChange of the input of an option of the i-th question: a checkbox is
\* toggled, a radio button is selected.
handleOptionChange(i, optionId, checked) ==
    /\ CanUseModal
    /\ i \in 1..Len(termsModal.questions)
    /\ LET question == termsModal.questions[i]
           selectedOptions == selectedOptionsOf(formResponses, question.id)
       IN  /\ question.question_type # "text"
           /\ includes(question.options, optionId)
           /\ checked = ~includes(selectedOptions, optionId)
           /\ question.allow_multiple \/ checked
           /\ handleFormChange(
                  updateResponse(formResponses, question.id,
                                 newSelectedOptions(question, selectedOptions, optionId, checked),
                                 Undefined))

\* onChange of the textarea of the i-th question.
handleTextChange(i, value) ==
    /\ CanUseModal
    /\ i \in 1..Len(termsModal.questions)
    /\ LET question == termsModal.questions[i]
       IN  /\ question.question_type = "text"
           /\ handleFormChange(updateResponse(formResponses, question.id, <<>>, value))

\* Variant: the form is not consulted.
canAccept_noForm == hasAccepted /\ hasScrolledToEnd

\* handleAccept: if (hasAccepted && hasScrolledToEnd && formIsValid)
canAccept == hasAccepted /\ hasScrolledToEnd /\ formIsValid

\* handleAccept calling onAccept(formResponses), which is handleAcceptTerms up
\* to its awaited upserts of the responses.
handleAccept ==
    /\ CanUseModal
    /\ canAccept
    /\ handler' = [IdleHandler EXCEPT
                      !.pc = "responses", !.name = "processEventRegistration",
                      !.caller = "handleAcceptTerms", !.event = termsModal.eventId]
    /\ alerts' = {}
    /\ errorsLogged' = {}
    /\ UNCHANGED <<storeVars, now, tz, modalVars, sqlVars, overlapVars, avaliarVars, loading, myParticipations, stats,
                   runs>>

\* handleCloseTermsModal (the X and Cancelar buttons).
handleCloseTermsModal ==
    /\ CanUseModal
    /\ termsModal' = ClosedTermsModal
    /\ UNCHANGED <<storeVars, now, tz, loading, myParticipations, stats, alerts, errorsLogged,
                   runs, handler, hasAccepted, hasScrolledToEnd, formResponses, formIsValid,
                   sqlVars, overlapVars, avaliarVars>>

(***************************************************************************)
(* Registration                                                            *)
(***************************************************************************)
\* handleQuickRegister(event.id), up to the awaited select of the event's terms.
handleQuickRegister(e) ==
    /\ CanClick
    /\ handler' = [IdleHandler EXCEPT
                      !.pc = "terms", !.name = "handleQuickRegister", !.event = e]
    /\ alerts' = {}
    /\ errorsLogged' = {}
    /\ UNCHANGED <<storeVars, now, tz, modalVars, sqlVars, overlapVars, avaliarVars, loading, myParticipations, stats,
                   runs>>

\* handleQuickRegister: the terms answer.  Without terms it goes on to
\* processEventRegistration, with terms to the select of the registration.
handleQuickRegister_terms ==
    /\ handler.pc = "terms"
    /\ \E ok \in BOOLEAN :
        IF ~ok
        THEN /\ alerts' = alerts \cup {"Erro ao iniciar inscrição. Tente novamente."}
             /\ handler' = IdleHandler
        ELSE /\ handler' = IF EventHasTerms[handler.event]
                           THEN [handler EXCEPT !.pc = "registration"]
                           ELSE [handler EXCEPT !.pc = "existing",
                                                !.name = "processEventRegistration"]
             /\ UNCHANGED alerts
    /\ UNCHANGED <<storeVars, now, tz, modalVars, sqlVars, overlapVars, avaliarVars, loading, myParticipations, stats,
                   errorsLogged, runs>>

\* Variant: `if (!existingRegistration)`, terms_accepted is not consulted.
handleQuickRegister_registration_anyRow ==
    /\ handler.pc = "registration"
    /\ \E ok \in BOOLEAN :
        LET rows == registrationsOf(handler.event)
        IN  IF ~ok \/ Cardinality(rows) > 1
            THEN /\ alerts' = alerts \cup {"Erro ao iniciar inscrição. Tente novamente."}
                 /\ handler' = IdleHandler
            ELSE /\ handler' = IF rows = {}
                               THEN [handler EXCEPT !.pc = "open"]
                               ELSE [handler EXCEPT !.pc = "existing",
                                                    !.name = "processEventRegistration"]
                 /\ UNCHANGED alerts
    /\ UNCHANGED <<storeVars, now, tz, modalVars, sqlVars, overlapVars, avaliarVars, loading, myParticipations, stats,
                   errorsLogged, runs>>

\* handleQuickRegister: the registration answers.  No row, or a row without
\* terms_accepted, leads to the modal; an accepted row to processEventRegistration.
handleQuickRegister_registration ==
    /\ handler.pc = "registration"
    /\ \E ok \in BOOLEAN :
        LET rows == registrationsOf(handler.event)
        IN  IF ~ok \/ Cardinality(rows) > 1
            THEN /\ alerts' = alerts \cup {"Erro ao iniciar inscrição. Tente novamente."}
                 /\ handler' = IdleHandler
            ELSE /\ handler' = IF rows = {} \/ ~(rows \subseteq terms_accepted)
                               THEN [handler EXCEPT !.pc = "open"]
                               ELSE [handler EXCEPT !.pc = "existing",
                                                    !.name = "processEventRegistration"]
                 /\ UNCHANGED alerts
    /\ UNCHANGED <<storeVars, now, tz, modalVars, sqlVars, overlapVars, avaliarVars, loading, myParticipations, stats,
                   errorsLogged, runs>>

\* handleQuickRegister: the title of the event and the questions answer (a
\* failed questions query is logged and gives no question); the modal opens.
handleQuickRegister_open ==
    /\ handler.pc = "open"
    /\ \E okEvent, okQuestions \in BOOLEAN :
        IF ~okEvent
        THEN /\ alerts' = alerts \cup {"Erro ao iniciar inscrição. Tente novamente."}
             /\ UNCHANGED modalVars
        ELSE /\ showTermsModal(handler.event,
                               IF okQuestions THEN event_terms_questions ELSE <<>>)
             /\ UNCHANGED alerts
    /\ handler' = IdleHandler
    /\ UNCHANGED <<storeVars, now, tz, sqlVars, overlapVars, avaliarVars, loading, myParticipations, stats,
                   errorsLogged, runs>>

\* handleAcceptTerms: the upserts of the responses answer; a failed one is
\* thrown into the catch and the modal stays open.
handleAcceptTerms_responses ==
    /\ handler.pc = "responses"
    /\ \E ok \in BOOLEAN :
        IF ~ok /\ Len(formResponses) > 0
        THEN /\ alerts' = alerts \cup {"Erro ao aceitar termos. Tente novamente."}
             /\ handler' = IdleHandler
        ELSE /\ handler' = [handler EXCEPT !.pc = "existing"]
             /\ UNCHANGED alerts
    /\ UNCHANGED <<storeVars, now, tz, modalVars, sqlVars, overlapVars, avaliarVars, loading, myParticipations, stats,
                   errorsLogged, runs>>

\* The handler after processEventRegistration has returned: handleAcceptTerms
\* still has to close the modal, handleQuickRegister ends.
Returned(h) ==
    IF h.caller = "handleAcceptTerms"
    THEN [IdleHandler EXCEPT !.pc = "close", !.caller = "handleAcceptTerms"]
    ELSE IdleHandler

\* handleAcceptTerms after `await processEventRegistration(...)`: the modal closes.
handleAcceptTerms_close ==
    /\ handler.pc = "close"
    /\ termsModal' = ClosedTermsModal
    /\ handler' = IdleHandler
    /\ UNCHANGED <<storeVars, now, tz, loading, myParticipations, stats, alerts, errorsLogged,
                   runs, hasAccepted, hasScrolledToEnd, formResponses, formIsValid, sqlVars, overlapVars, avaliarVars>>


\* processEventRegistration: the select ... maybeSingle() answers.  More than
\* one row, or a failed query, is checkError and is thrown into the catch.
processEventRegistration_existing ==
    /\ handler.pc = "existing"
    /\ \E ok \in BOOLEAN :
        LET rows == registrationsOf(handler.event)
        IN  IF ~ok \/ Cardinality(rows) > 1
            THEN /\ alerts' = alerts \cup {"Erro ao se inscrever no evento. Tente novamente."}
                 /\ handler' = Returned(handler)
            ELSE IF rows # {} /\ event_registrations[CHOOSE i \in rows : TRUE].status
                                    \in {"confirmed", "pending"}
            THEN /\ alerts' = alerts \cup {"Você já possui uma inscrição neste evento."}
                 /\ handler' = Returned(handler)
            ELSE /\ handler' = [handler EXCEPT
                                   !.pc = "count",
                                   !.existing = IF rows = {} THEN 0 ELSE CHOOSE i \in rows : TRUE]
                 /\ UNCHANGED alerts
    /\ UNCHANGED <<storeVars, now, tz, modalVars, sqlVars, overlapVars, avaliarVars, loading, myParticipations, stats, errorsLogged, runs>>

\* Variant: the cancelled row is not reactivated, a new row is inserted.
processEventRegistration_count_insertOnly ==
    /\ handler.pc = "count"
    /\ \E answer \in {"error", "full", "available"} :
        IF answer = "error"
        THEN /\ alerts' = alerts \cup {"Erro ao se inscrever no evento. Tente novamente."}
             /\ handler' = Returned(handler)
        ELSE IF answer = "full"
        THEN /\ alerts' = alerts \cup {"Não há vagas disponíveis neste evento."}
             /\ handler' = Returned(handler)
        ELSE /\ handler' = [handler EXCEPT
                               !.pc = "write",
                               !.write = <<"insert_registration", handler.event>>]
             /\ UNCHANGED alerts
    /\ UNCHANGED <<storeVars, now, tz, modalVars, sqlVars, overlapVars, avaliarVars, loading, myParticipations, stats,
                   errorsLogged, runs>>

\* processEventRegistration: the event and the count of confirmed registrations
\* answer; the registrations of the other users decide the free places.
processEventRegistration_count ==
    /\ handler.pc = "count"
    /\ \E answer \in {"error", "full", "available"} :
        IF answer = "error"
        THEN /\ alerts' = alerts \cup {"Erro ao se inscrever no evento. Tente novamente."}
             /\ handler' = Returned(handler)
        ELSE IF answer = "full"
        THEN /\ alerts' = alerts \cup {"Não há vagas disponíveis neste evento."}
             /\ handler' = Returned(handler)
        ELSE /\ handler' = [handler EXCEPT
                               !.pc = "write",
                               !.write = IF handler.existing # 0
                                         THEN <<"reactivate_registration", handler.existing>>
                                         ELSE <<"insert_registration", handler.event>>]
             /\ UNCHANGED alerts
    /\ UNCHANGED <<storeVars, now, tz, modalVars, sqlVars, overlapVars, avaliarVars, loading, myParticipations, stats, errorsLogged, runs>>

\* The rows of the store after the write w.
Written(w) ==
    [team_members |->
        IF w[1] = "leave_team"
        THEN [team_members EXCEPT ![w[2]].status = "inactive"]
        ELSE team_members,
     event_registrations |->
        IF w[1] = "cancel_registration"
        THEN [event_registrations EXCEPT ![w[2]].status = "cancelled"]
        ELSE IF w[1] = "cancel_registrations_of_event"
        THEN [i \in 1..Len(event_registrations) |->
                 IF event_registrations[i].events = w[2]
                 THEN [event_registrations[i] EXCEPT !.status = "cancelled"]
                 ELSE event_registrations[i]]
        ELSE IF w[1] = "reactivate_registration"
        THEN [event_registrations EXCEPT ![w[2]].status = "confirmed"]
        ELSE IF w[1] = "insert_registration"
        THEN Append(event_registrations, [status |-> "confirmed", events |-> w[2]])
        ELSE event_registrations,
     terms_accepted |->
        IF w[1] = "cancel_registrations_of_event"
        THEN terms_accepted \ registrationsOf(w[2])
        ELSE IF w[1] = "reactivate_registration"
        THEN terms_accepted \cup {w[2]}
        ELSE IF w[1] = "insert_registration"
        THEN terms_accepted \cup {Len(event_registrations) + 1}
        ELSE terms_accepted]

\* The store answers the write of the handler: it applies it, or rejects it
\* (authorisation or transport failure; 23505 for a second row of one event).
StoreAck ==
    /\ handler.pc = "write"
    /\ LET w == handler.write
       IN  IF w[1] = "insert_registration" /\ registrationsOf(w[2]) # {}
           THEN /\ handler' = [handler EXCEPT !.pc = "acked", !.result = "23505"]
                /\ UNCHANGED storeVars
           ELSE \E accepted \in BOOLEAN :
                  IF accepted
                  THEN /\ team_members' = Written(w).team_members
                       /\ event_registrations' = Written(w).event_registrations
                       /\ terms_accepted' = Written(w).terms_accepted
                       /\ UNCHANGED <<teams, evaluations, event_terms_questions>>
                       /\ handler' = [handler EXCEPT !.pc = "acked", !.result = "ok"]
                  ELSE /\ handler' = [handler EXCEPT !.pc = "acked", !.result = "error"]
                       /\ UNCHANGED storeVars
    /\ UNCHANGED <<now, tz, modalVars, sqlVars, overlapVars, avaliarVars, loading, myParticipations, stats, alerts, errorsLogged, runs>>

\* Variant: the catch does not look at error.code.
FailureMessage_generic(h) ==
    IF h.name = "handleLeaveTeam" THEN "Erro ao processar sua solicitação. Tente novamente."
    ELSE IF h.name = "handleCancelRegistration" THEN "Erro ao cancelar inscrição. Tente novamente."
    ELSE "Erro ao se inscrever no evento. Tente novamente."

\* The message of the handler's catch block.
FailureMessage(h) ==
    IF h.name = "handleLeaveTeam" THEN "Erro ao processar sua solicitação. Tente novamente."
    ELSE IF h.name = "handleCancelRegistration" THEN "Erro ao cancelar inscrição. Tente novamente."
    ELSE IF h.result = "23505" THEN "Você já está inscrito neste evento."
    ELSE "Erro ao se inscrever no evento. Tente novamente."

\* The message shown after the acknowledged write.
SuccessMessage(h) ==
    IF h.write[1] = "leave_team" THEN "Você saiu da equipe com sucesso!"
    ELSE IF h.write[1] = "cancel_registration" THEN "Sua inscrição foi cancelada com sucesso!"
    ELSE IF h.write[1] = "cancel_registrations_of_event" THEN "Inscrição cancelada com sucesso!"
    ELSE IF h.write[1] = "reactivate_registration" THEN "Sua inscrição no evento foi reativada com sucesso!"
    ELSE "Você foi inscrito com sucesso no evento!"

\* Variant: `if (error) throw error` is missing, the refresh follows any answer.
AfterWrite_refetchAlways ==
    /\ handler.pc = "acked"
    /\ alerts' = alerts \cup {SuccessMessage(handler)}
    /\ StartRun("refresh")
    /\ handler' = [handler EXCEPT !.pc = "refetch"]
    /\ UNCHANGED <<storeVars, now, tz, sqlVars, overlapVars, avaliarVars, myParticipations, stats, errorsLogged>>

\* The handler resumes after its awaited write: `if (error) throw error` into
\* the catch, or the success alert and `await fetchVolunteerData()`.
AfterWrite ==
    /\ handler.pc = "acked"
    /\ IF handler.result = "ok"
       THEN /\ alerts' = alerts \cup {SuccessMessage(handler)}
            /\ StartRun("refresh")
            /\ handler' = [handler EXCEPT !.pc = "refetch"]
       ELSE /\ alerts' = alerts \cup {FailureMessage(handler)}
            /\ handler' = Returned(handler)
            /\ UNCHANGED <<runs, loading, modalVars>>
    /\ UNCHANGED <<storeVars, now, tz, sqlVars, overlapVars, avaliarVars, myParticipations, stats, errorsLogged>>

\* The awaited fetchVolunteerData() has returned: the handler ends.
AfterRefetch ==
    /\ handler.pc = "refetch"
    /\ runs["refresh"].pc = "done"
    /\ handler' = Returned(handler)
    /\ runs' = [runs EXCEPT !["refresh"] = IdleRun]
    /\ UNCHANGED <<storeVars, now, tz, modalVars, sqlVars, overlapVars, avaliarVars, loading, myParticipations, stats, alerts, errorsLogged>>

Next ==
    \/ Mount
    \/ \E r \in RunIds : FetchEvents(r)
    \/ \E r \in RunIds : FetchTeamMembers(r)
    \/ \E r \in RunIds : FetchRegistrations(r)
    \/ \E r \in RunIds : FetchTeams(r)
    \/ \E r \in RunIds : FetchEvaluations(r)
    \/ \E i \in 1..Len(myParticipations) : handleLeaveTeam(i)
    \/ \E e \in EventIds : handleCancelRegistration(e)
    \/ \E e \in EventIds : handleQuickRegister(e)
    \/ handleQuickRegister_terms
    \/ handleQuickRegister_registration
    \/ handleQuickRegister_open
    \/ handleScroll
    \/ \E checked \in BOOLEAN : setHasAccepted(checked)
    \/ handleAccept
    \/ handleCloseTermsModal
    \/ handleAcceptTerms_responses
    \/ handleAcceptTerms_close
    \/ processEventRegistration_existing
    \/ processEventRegistration_count
    \/ StoreAck
    \/ AfterWrite
    \/ AfterRefetch

Spec == Init /\ [][Next]_vars

(***************************************************************************)
(* SpecRegistered: the handlers of a user none of whose registrations is   *)
(* cancelled at the start, so that every cancelled row of a behaviour was  *)
(* cancelled by a handler of the page.                                     *)
(***************************************************************************)
InitRegistered ==
    /\ Init
    /\ \A i \in 1..Len(event_registrations) : event_registrations[i].status # "cancelled"

SpecRegistered == InitRegistered /\ [][Next]_vars

(***************************************************************************)
(* SpecRefresh: two handlers in flight at once.  The controls stay on the  *)
(* page while a handler awaits its write, so a second click starts a       *)
(* second handler; each handler, after its acknowledged write, calls       *)
(* fetchVolunteerData, and the two runs overlap.  Every query of the runs  *)
(* succeeds in this specification.                                         *)
(***************************************************************************)
\* handleCancelRegistration(event.id, event.title) clicked while the first
\* handler awaits the answer to its write.
handleCancelRegistration_second(e) ==
    /\ loading = FALSE
    /\ ~termsModal.isOpen
    /\ handler.pc = "write"
    /\ secondHandler.pc = "idle"
    /\ secondHandler' = [IdleSecondHandler EXCEPT !.pc = "write", !.event = e]
    /\ UNCHANGED <<storeVars, now, tz, loading, myParticipations, stats, alerts, errorsLogged,
                   runs, handler, modalVars, sqlVars, avaliarVars, procs,
                   all_event_registrations>>

\* The store answers the update of the second handler.
StoreAck_second ==
    /\ secondHandler.pc = "write"
    /\ LET w == <<"cancel_registrations_of_event", secondHandler.event>>
       IN  \E accepted \in BOOLEAN :
             IF accepted
             THEN /\ event_registrations' = Written(w).event_registrations
                  /\ terms_accepted' = Written(w).terms_accepted
                  /\ secondHandler' = [secondHandler EXCEPT !.pc = "acked", !.result = "ok"]
             ELSE /\ secondHandler' = [secondHandler EXCEPT !.pc = "acked", !.result = "error"]
                  /\ UNCHANGED <<event_registrations, terms_accepted>>
    /\ UNCHANGED <<team_members, teams, evaluations, event_terms_questions, now, tz, loading,
                   myParticipations, stats, alerts, errorsLogged, runs, handler, modalVars,
                   sqlVars, avaliarVars, procs, all_event_registrations>>

\* The second handler resumes: the alert and `await fetchVolunteerData()`,
\* or the catch.
AfterWrite_second ==
    /\ secondHandler.pc = "acked"
    /\ IF secondHandler.result = "ok"
       THEN /\ alerts' = alerts \cup {"Inscrição cancelada com sucesso!"}
            /\ StartRun("overlap")
            /\ secondHandler' = [secondHandler EXCEPT !.pc = "refetch"]
       ELSE /\ alerts' = alerts \cup {"Erro ao cancelar inscrição. Tente novamente."}
            /\ secondHandler' = IdleSecondHandler
            /\ UNCHANGED <<runs, loading, modalVars>>
    /\ UNCHANGED <<storeVars, now, tz, myParticipations, stats, errorsLogged, handler, sqlVars,
                   avaliarVars, procs, all_event_registrations>>

\* The fetchVolunteerData() awaited by the second handler has returned.
AfterRefetch_second ==
    /\ secondHandler.pc = "refetch"
    /\ runs["overlap"].pc = "done"
    /\ secondHandler' = IdleSecondHandler
    /\ runs' = [runs EXCEPT !["overlap"] = IdleRun]
    /\ UNCHANGED <<storeVars, now, tz, loading, myParticipations, stats, alerts, errorsLogged,
                   handler, modalVars, sqlVars, avaliarVars, procs, all_event_registrations>>

NextRefresh ==
    \/ Mount
    \/ \E r \in RunIds : FetchEvents(r) /\ runs'[r].pc = "team_members"
    \/ \E r \in RunIds : FetchTeamMembers(r) /\ runs'[r].failed = {}
    \/ \E r \in RunIds : FetchRegistrations(r) /\ runs'[r].failed = {}
    \/ \E r \in RunIds : FetchTeams(r) /\ runs'[r].failed = {}
    \/ \E r \in RunIds : FetchEvaluations(r)
    \/ \E e \in EventIds : handleCancelRegistration(e)
    \/ StoreAck
    \/ AfterWrite
    \/ AfterRefetch
    \/ \E e \in EventIds : handleCancelRegistration_second(e)
    \/ StoreAck_second
    \/ AfterWrite_second
    \/ AfterRefetch_second

SpecRefresh == InitRegistered /\ [][NextRefresh]_vars

(***************************************************************************)
(* SpecTermsModal: the registration, through the terms modal, of a user    *)
(* without participations in the events that have terms, for every list of *)
(* questions of the terms, with the controls of TermsQuestionsForm.        *)
(***************************************************************************)
InitTermsModal ==
    /\ team_members = <<>>
    /\ teams = <<>>
    /\ event_registrations = <<>>
    /\ terms_accepted = {}
    /\ evaluations = <<>>
    /\ event_terms_questions \in QuestionLists
    /\ NoSql
    /\ NoOverlap
    /\ NoAvaliar
    /\ now \in {t \in Nows : t < 24}
    /\ tz = 0
    /\ InitUI

NextTermsModal ==
    \/ Mount
    \/ \E r \in RunIds : FetchEvents(r)
    \/ \E r \in RunIds : FetchTeamMembers(r)
    \/ \E r \in RunIds : FetchRegistrations(r)
    \/ \E r \in RunIds : FetchTeams(r)
    \/ \E r \in RunIds : FetchEvaluations(r)
    \/ \E e \in {x \in EventIds : EventHasTerms[x]} : handleQuickRegister(e)
    \/ handleQuickRegister_terms
    \/ handleQuickRegister_registration
    \/ handleQuickRegister_open
    \/ handleScroll
    \/ \E checked \in BOOLEAN : setHasAccepted(checked)
    \/ handleAccept
    \/ handleCloseTermsModal
    \/ handleAcceptTerms_responses
    \/ handleAcceptTerms_close
    \/ processEventRegistration_existing
    \/ processEventRegistration_count
    \/ StoreAck
    \/ AfterWrite
    \/ AfterRefetch
    \/ \E i \in 1..Len(termsModal.questions) :
         \E o \in DOMAIN OptionIds :
           \E checked \in BOOLEAN : handleOptionChange(i, OptionIds[o], checked)
    \/ \E i \in 1..Len(termsModal.questions) :
         \E value \in Texts : handleTextChange(i, value)

SpecTermsModal == InitTermsModal /\ [][NextTermsModal]_vars

(***************************************************************************)
(* SpecSql: the tables events and registrations of the migration, with the *)
(* row level security policies and the trigger that keeps                  *)
(* current_volunteers, under statements of the users and of the service    *)
(* role.                                                                   *)
(***************************************************************************)
\* The senders of statements: the users u1 and u2 (auth.uid() is the sender)
\* and service_role, the role that is not subject to row level security.
SqlActors == {"u1", "u2"} \cup {"service_role"}
\* events.organizer_id
organizer_id == [e \in EventIds |-> IF e = "e1" THEN "u1" ELSE "u2"]
\* CHECK (status IN (...)) of registrations.status
RegistrationStatuses == {"pending", "confirmed", "cancelled", "completed"}

\* ENABLE ROW LEVEL SECURITY: the policies apply to the role authenticated.
BypassesRls(actor) == actor = "service_role"
\* "Organizers can manage own events": the one policy of events for UPDATE.
EventsUpdatePolicy(actor, e) == BypassesRls(actor) \/ organizer_id[e] = actor
\* "Users can create own registrations"
RegistrationsInsertPolicy(actor, user_id) == BypassesRls(actor) \/ user_id = actor
\* "Users can update own registrations"
RegistrationsUpdatePolicy(actor, user_id) == BypassesRls(actor) \/ user_id = actor
\* registrations has no policy for DELETE.
RegistrationsDeletePolicy(actor) == BypassesRls(actor)

\* UPDATE events SET current_volunteers = current_volunteers + delta
\* WHERE id = e, run by the trigger function with the rights of the sender of
\* the statement (the function is not SECURITY DEFINER): the policy of events
\* decides whether the row is among the rows updated.
UpdateEvents(actor, e, delta) ==
    IF EventsUpdatePolicy(actor, e)
    THEN [current_volunteers EXCEPT ![e] = @ + delta]
    ELSE current_volunteers

\* update_event_volunteers_count(): AFTER INSERT OR DELETE, FOR EACH ROW.
update_event_volunteers_count(actor, TG_OP, row) ==
    IF TG_OP = "INSERT" THEN UpdateEvents(actor, row.event_id, 1)
    ELSE IF TG_OP = "DELETE" THEN UpdateEvents(actor, row.event_id, -1)
    ELSE current_volunteers

\* INSERT INTO registrations (user_id, event_id, status)
InsertRegistration(actor, user_id, event_id, status) ==
    LET row == [user_id |-> user_id, event_id |-> event_id, status |-> status] IN
    /\ RegistrationsInsertPolicy(actor, user_id)
    /\ \A r \in registrations : ~(r.user_id = user_id /\ r.event_id = event_id)
    /\ registrations' = registrations \cup {row}
    /\ current_volunteers' = update_event_volunteers_count(actor, "INSERT", row)
    /\ UNCHANGED <<storeVars, now, tz, loading, myParticipations, stats, alerts,
                   errorsLogged, runs, handler, modalVars, overlapVars, avaliarVars>>

\* DELETE FROM registrations WHERE user_id = ... AND event_id = ...
DeleteRegistration(actor, row) ==
    /\ row \in registrations
    /\ RegistrationsDeletePolicy(actor)
    /\ current_volunteers[row.event_id] > -MaxDeficit
    /\ registrations' = registrations \ {row}
    /\ current_volunteers' = update_event_volunteers_count(actor, "DELETE", row)
    /\ UNCHANGED <<storeVars, now, tz, loading, myParticipations, stats, alerts,
                   errorsLogged, runs, handler, modalVars, overlapVars, avaliarVars>>

\* UPDATE registrations SET status = ... : the trigger is not on UPDATE.
UpdateRegistrationStatus(actor, row, status) ==
    /\ row \in registrations
    /\ RegistrationsUpdatePolicy(actor, row.user_id)
    /\ status # row.status
    /\ registrations' = (registrations \ {row}) \cup {[row EXCEPT !.status = status]}
    /\ current_volunteers' = update_event_volunteers_count(actor, "UPDATE", row)
    /\ UNCHANGED <<storeVars, now, tz, loading, myParticipations, stats, alerts,
                   errorsLogged, runs, handler, modalVars, overlapVars, avaliarVars>>

InitSql ==
    /\ team_members = <<>>
    /\ teams = <<>>
    /\ event_registrations = <<>>
    /\ terms_accepted = {}
    /\ evaluations = <<>>
    /\ event_terms_questions = <<>>
    /\ NoSql
    /\ NoOverlap
    /\ NoAvaliar
    /\ now \in {t \in Nows : t < 24}
    /\ tz = 0
    /\ InitUI

NextSql ==
    \/ \E actor \in SqlActors : \E u \in {"u1", "u2"} : \E e \in EventIds :
         \E status \in {"confirmed", "pending"} : InsertRegistration(actor, u, e, status)
    \/ \E actor \in SqlActors : \E row \in registrations : DeleteRegistration(actor, row)
    \/ \E actor \in SqlActors : \E row \in registrations :
         \E status \in RegistrationStatuses : UpdateRegistrationStatus(actor, row, status)

SpecSql == InitSql /\ [][NextSql]_vars

(***************************************************************************)
(* SpecConcurrent: Spec together with a second execution of                *)
(* processEventRegistration of the same user (another tab, a second click) *)
(* whose insert reaches the store while this one is between its read of    *)
(* the registration and its own write.                                     *)
(***************************************************************************)
processEventRegistration_insert_other(e) ==
    /\ handler.pc \in {"count", "write"}
    /\ handler.name = "processEventRegistration"
    /\ handler.event = e
    /\ registrationsOf(e) = {}
    /\ event_registrations' = Append(event_registrations,
                                     [status |-> "confirmed", events |-> e])
    /\ terms_accepted' = terms_accepted \cup {Len(event_registrations) + 1}
    /\ UNCHANGED <<team_members, teams, evaluations, event_terms_questions, now, tz,
                   modalVars, sqlVars, overlapVars, avaliarVars, loading, myParticipations, stats, alerts,
                   errorsLogged, runs, handler>>

NextConcurrent ==
    \/ Next
    \/ \E e \in EventIds : processEventRegistration_insert_other(e)

SpecConcurrent == Init /\ [][NextConcurrent]_vars

(***************************************************************************)
(* SpecOverlap: calls of processEventRegistration for one event that       *)
(* overlap, by one user (a double click) or by two users, against the      *)
(* rows of event_registrations of that event.  The store enforces          *)
(* UNIQUE(user_id, event_id); each awaited query is one step.              *)
(***************************************************************************)
\* events.max_volunteers of the event
max_volunteers == 1

rowsOfUser(u) ==
    {i \in 1..Len(all_event_registrations) : all_event_registrations[i].user_id = u}
\* select('id', { count: 'exact' }).eq('event_id', eventId).eq('status', 'confirmed')
activeRegistrations ==
    Cardinality({i \in 1..Len(all_event_registrations) :
                    all_event_registrations[i].status = "confirmed"})

InitOverlap ==
    /\ team_members = <<>>
    /\ teams = <<>>
    /\ event_registrations = <<>>
    /\ terms_accepted = {}
    /\ evaluations = <<>>
    /\ event_terms_questions = <<>>
    /\ NoSql
    /\ NoAvaliar
    /\ now \in {t \in Nows : t < 24}
    /\ tz = 0
    /\ InitUI
    /\ secondHandler = IdleSecondHandler
    /\ procs = [p \in {"p1", "p2"} |-> IdleProc]
    /\ \E n \in 0..Cardinality({"u1", "u2"}) :
         all_event_registrations \in
             [1..n -> [user_id : {"u1", "u2"}, status : {"pending", "confirmed", "cancelled"}]]
    /\ \A u \in {"u1", "u2"} : Cardinality(rowsOfUser(u)) <= 1
    /\ activeRegistrations <= max_volunteers

\* The user u calls processEventRegistration(eventId): the select of the
\* existing registration is sent.
processEventRegistrationOf(p, u) ==
    /\ procs[p].pc = "idle"
    /\ procs' = [procs EXCEPT ![p] = [IdleProc EXCEPT !.pc = "existing", !.user = u]]
    /\ UNCHANGED <<storeVars, now, tz, loading, myParticipations, stats, alerts, errorsLogged,
                   runs, handler, modalVars, sqlVars, avaliarVars, secondHandler,
                   all_event_registrations>>

\* The select ... maybeSingle() of the user's registration answers.
processEventRegistrationOf_existing(p) ==
    /\ procs[p].pc = "existing"
    /\ \E ok \in BOOLEAN :
        LET rows == rowsOfUser(procs[p].user)
        IN  IF ~ok
            THEN procs' = [procs EXCEPT ![p].pc = "done", ![p].alert = "Erro ao se inscrever no evento. Tente novamente."]
            ELSE IF rows # {} /\ all_event_registrations[CHOOSE i \in rows : TRUE].status
                                    \in {"confirmed", "pending"}
            THEN procs' = [procs EXCEPT ![p].pc = "done", ![p].alert = "Você já possui uma inscrição neste evento."]
            ELSE procs' = [procs EXCEPT
                              ![p].pc = "count",
                              ![p].existing = IF rows = {} THEN 0 ELSE CHOOSE i \in rows : TRUE]
    /\ UNCHANGED <<storeVars, now, tz, loading, myParticipations, stats, alerts, errorsLogged,
                   runs, handler, modalVars, sqlVars, avaliarVars, secondHandler,
                   all_event_registrations>>

\* The event and the count of confirmed registrations answer:
\* availableSpots = max_volunteers - activeRegistrations.
processEventRegistrationOf_count(p) ==
    /\ procs[p].pc = "count"
    /\ \E ok \in BOOLEAN :
        IF ~ok
        THEN procs' = [procs EXCEPT ![p].pc = "done", ![p].alert = "Erro ao se inscrever no evento. Tente novamente."]
        ELSE IF max_volunteers - activeRegistrations <= 0
        THEN procs' = [procs EXCEPT ![p].pc = "done", ![p].alert = "Não há vagas disponíveis neste evento."]
        ELSE procs' = [procs EXCEPT ![p].pc = "write"]
    /\ UNCHANGED <<storeVars, now, tz, loading, myParticipations, stats, alerts, errorsLogged,
                   runs, handler, modalVars, sqlVars, avaliarVars, secondHandler,
                   all_event_registrations>>

\* The store answers the update of the cancelled row, or the insert, which
\* it rejects with 23505 when the user has a row of the event.
processEventRegistrationOf_write(p) ==
    /\ procs[p].pc = "write"
    /\ \E accepted \in BOOLEAN :
        IF ~accepted
        THEN /\ procs' = [procs EXCEPT ![p].pc = "done", ![p].alert = "Erro ao se inscrever no evento. Tente novamente."]
             /\ UNCHANGED all_event_registrations
        ELSE IF procs[p].existing # 0
        THEN /\ all_event_registrations' =
                    [all_event_registrations EXCEPT ![procs[p].existing].status = "confirmed"]
             /\ procs' = [procs EXCEPT ![p].pc = "done", ![p].alert = "Sua inscrição no evento foi reativada com sucesso!"]
        ELSE IF rowsOfUser(procs[p].user) # {}
        THEN /\ procs' = [procs EXCEPT ![p].pc = "done", ![p].alert = "Você já está inscrito neste evento."]
             /\ UNCHANGED all_event_registrations
        ELSE /\ all_event_registrations' =
                    Append(all_event_registrations,
                           [user_id |-> procs[p].user, status |-> "confirmed"])
             /\ procs' = [procs EXCEPT ![p].pc = "done", ![p].alert = "Você foi inscrito com sucesso no evento!"]
    /\ UNCHANGED <<storeVars, now, tz, loading, myParticipations, stats, alerts, errorsLogged,
                   runs, handler, modalVars, sqlVars, avaliarVars, secondHandler>>

NextOverlap ==
    \/ \E p \in {"p1", "p2"} : \E u \in {"u1", "u2"} : processEventRegistrationOf(p, u)
    \/ \E p \in {"p1", "p2"} : processEventRegistrationOf_existing(p)
    \/ \E p \in {"p1", "p2"} : processEventRegistrationOf_count(p)
    \/ \E p \in {"p1", "p2"} : processEventRegistrationOf_write(p)

SpecOverlap == InitOverlap /\ [][NextOverlap]_vars

(***************************************************************************)
(* SpecAvaliar: the page AvaliarEquipe.  fetchData loads the teams of the  *)
(* captain; selecting an event starts fetchEvaluations; handleSubmit       *)
(* inserts an evaluation.  Each awaited query is answered in a step of its *)
(* own, so the answers arrive in any order.                                *)
(***************************************************************************)
\* The state of the dashboards, which this page does not touch.
dashboardVars == <<storeVars, now, tz, myParticipations, stats, errorsLogged, runs, handler,
                   modalVars>>

\* user.id of the captain who uses the page is "me".
\* members:team_members(user:users(...), role_in_team, status) of a team row
TeamMemberLists ==
    {<<[user |-> "v1", role_in_team |-> m[1], status |-> m[2]],
       [user |-> u, role_in_team |-> "volunteer", status |-> "active"]>> :
        m \in {<<"volunteer", "active">>, <<"volunteer", "inactive">>,
               <<"captain", "active">>},
        u \in {"v2", NoSelection}}
\* event:events(id, title, event_date, status) of a team row, or null
TeamEventsOf(e) ==
    {[id |-> e, status |-> st] : st \in {"completed", "published"}} \cup {NoTeamEvent}


InitAvaliar ==
    /\ team_members = <<>>
    /\ teams = <<>>
    /\ event_registrations = <<>>
    /\ terms_accepted = {}
    /\ evaluations = <<>>
    /\ event_terms_questions = <<>>
    /\ NoSql
    /\ NoOverlap
    /\ now \in {t \in Nows : t < 24}
    /\ tz = 0
    /\ InitUI
    /\ InitAvaliarUI
    /\ \E captain \in {"me", "other"} :
         \E event \in TeamEventsOf("e1") :
           \E members \in TeamMemberLists :
             \E status2 \in {"completed", "published"} :
               captain_teams =
                 <<[id |-> "t1", captain_id |-> captain, event |-> event,
                    members |-> members],
                   [id |-> "t2", captain_id |-> "me",
                    event |-> [id |-> "e2", status |-> status2],
                    members |-> <<[user |-> "v1", role_in_team |-> "volunteer",
                                   status |-> "active"]>>]>>
    /\ evaluation_rows \in
         SUBSET {[volunteer_id |-> "v1", event_id |-> "e1", team_id |-> "t1"]}

\* .eq('captain_id', user.id), then the filter and the map of lines 84-99.
filtered(data) ==
    LET mine      == SelectSeq(data, LAMBDA team : team.captain_id = "me")
        completed == SelectSeq(mine, LAMBDA team :
                         team.event # NoTeamEvent /\ team.event.status = "completed")
    IN  [i \in 1..Len(completed) |->
            LET team == completed[i]
                kept == SelectSeq(team.members, LAMBDA m :
                            m.role_in_team = "volunteer" /\ m.status = "active"
                            /\ m.user # NoSelection)
            IN  [event_id |-> team.event.id,
                 team_id  |-> team.id,
                 members  |-> [j \in 1..Len(kept) |-> kept[j].user]]]

\* fetchData: the teams query answers; finally setLoading(false).
fetchData ==
    /\ loading = TRUE
    /\ \E ok \in BOOLEAN :
        IF ok
        THEN /\ teamEvents' = filtered(captain_teams)
             /\ UNCHANGED alerts
        ELSE /\ alerts' = alerts \cup {"Erro ao buscar equipes e eventos para avaliação."}
             /\ UNCHANGED teamEvents
    /\ loading' = FALSE
    /\ UNCHANGED <<dashboardVars, sqlVars, overlapVars, captain_teams, evaluation_rows,
                   selectedEvent, evaluated, selectedVolunteer, submitting, lookups,
                   submission>>

\* teamEvents.find(ev => ev.event_id === e.target.value)
findTeamEvent(event_id) ==
    teamEvents[CHOOSE i \in 1..Len(teamEvents) :
                  /\ teamEvents[i].event_id = event_id
                  /\ \A j \in 1..(i - 1) : teamEvents[j].event_id # event_id]

\* The select changes to the option of an event: handleSelectEvent(ev), and
\* the effect on [selectedEvent, user] sends the evaluations query.
handleSelectEvent(event_id) ==
    /\ loading = FALSE
    /\ \E i \in 1..Len(teamEvents) : teamEvents[i].event_id = event_id
    /\ selectedEvent = NoSelectedEvent \/ selectedEvent.event_id # event_id
    /\ selectedEvent' = findTeamEvent(event_id)
    /\ evaluated' = {}
    /\ selectedVolunteer' = NoSelection
    /\ lookups' = lookups \cup {[event_id |-> findTeamEvent(event_id).event_id,
                                 team_id  |-> findTeamEvent(event_id).team_id]}
    /\ alerts' = {}
    /\ UNCHANGED <<dashboardVars, sqlVars, overlapVars, loading, captain_teams,
                   evaluation_rows, teamEvents, submitting, submission>>

\* fetchEvaluations: the evaluations query of a selection answers;
\* if (!error && data) setEvaluated(evalMap).
fetchEvaluations(lookup) ==
    /\ lookup \in lookups
    /\ \E ok \in BOOLEAN :
        IF ok
        THEN evaluated' = {row.volunteer_id : row \in
                              {r \in evaluation_rows : /\ r.event_id = lookup.event_id
                                                       /\ r.team_id = lookup.team_id}}
        ELSE UNCHANGED evaluated
    /\ lookups' = lookups \ {lookup}
    /\ UNCHANGED <<dashboardVars, sqlVars, overlapVars, loading, alerts, captain_teams,
                   evaluation_rows, teamEvents, selectedEvent, selectedVolunteer, submitting,
                   submission>>

\* The button 'Avaliar' of a member that is not marked: handleSelectVolunteer(vol).
handleSelectVolunteer(vol) ==
    /\ loading = FALSE
    /\ selectedEvent # NoSelectedEvent
    /\ \E j \in 1..Len(selectedEvent.members) : selectedEvent.members[j] = vol
    /\ vol \notin evaluated
    /\ selectedVolunteer' = vol
    /\ alerts' = {}
    /\ UNCHANGED <<dashboardVars, sqlVars, overlapVars, loading, captain_teams,
                   evaluation_rows, teamEvents, selectedEvent, evaluated, submitting, lookups,
                   submission>>

\* handleSubmit up to the awaited insert; the submit button is disabled
\* while submitting.
handleSubmit ==
    /\ loading = FALSE
    /\ selectedEvent # NoSelectedEvent
    /\ selectedVolunteer # NoSelection
    /\ submitting = FALSE
    /\ submitting' = TRUE
    /\ submission' = [volunteer_id |-> selectedVolunteer,
                      event_id     |-> selectedEvent.event_id,
                      team_id      |-> selectedEvent.team_id,
                      result       |-> "none"]
    /\ alerts' = {}
    /\ UNCHANGED <<dashboardVars, sqlVars, overlapVars, loading, captain_teams,
                   evaluation_rows, teamEvents, selectedEvent, evaluated, selectedVolunteer,
                   lookups>>

\* The store answers the insert into evaluations.
handleSubmit_insert ==
    /\ submission # NoSubmission
    /\ submission.result = "none"
    /\ \E accepted \in BOOLEAN :
        IF accepted
        THEN /\ evaluation_rows' = evaluation_rows \cup
                    {[volunteer_id |-> submission.volunteer_id,
                      event_id     |-> submission.event_id,
                      team_id      |-> submission.team_id]}
             /\ submission' = [submission EXCEPT !.result = "ok"]
        ELSE /\ submission' = [submission EXCEPT !.result = "error"]
             /\ UNCHANGED evaluation_rows
    /\ UNCHANGED <<dashboardVars, sqlVars, overlapVars, loading, alerts, captain_teams,
                   teamEvents, selectedEvent, evaluated, selectedVolunteer, submitting,
                   lookups>>

\* Variant: the catch marks the volunteer as well.
handleSubmit_after_markAlways ==
    /\ submission # NoSubmission
    /\ submission.result # "none"
    /\ evaluated' = evaluated \cup {submission.volunteer_id}
    /\ selectedVolunteer' = NoSelection
    /\ alerts' = alerts \cup {IF submission.result = "ok" THEN "Avaliação registrada com sucesso!" ELSE "Erro ao registrar avaliação."}
    /\ submitting' = FALSE
    /\ submission' = NoSubmission
    /\ UNCHANGED <<dashboardVars, sqlVars, overlapVars, loading, captain_teams,
                   evaluation_rows, teamEvents, selectedEvent, lookups>>

\* handleSubmit resumes: if (error) throw error; setEvaluated(prev => ...);
\* setSelectedVolunteer(null); alert; catch: alert; finally setSubmitting(false).
handleSubmit_after ==
    /\ submission # NoSubmission
    /\ submission.result # "none"
    /\ IF submission.result = "ok"
       THEN /\ evaluated' = evaluated \cup {submission.volunteer_id}
            /\ selectedVolunteer' = NoSelection
            /\ alerts' = alerts \cup {"Avaliação registrada com sucesso!"}
       ELSE /\ alerts' = alerts \cup {"Erro ao registrar avaliação."}
            /\ UNCHANGED <<evaluated, selectedVolunteer>>
    /\ submitting' = FALSE
    /\ submission' = NoSubmission
    /\ UNCHANGED <<dashboardVars, sqlVars, overlapVars, loading, captain_teams,
                   evaluation_rows, teamEvents, selectedEvent, lookups>>

\* The button 'Cancelar' of the form: setSelectedVolunteer(null).
setSelectedVolunteer_null ==
    /\ loading = FALSE
    /\ selectedVolunteer # NoSelection
    /\ submitting = FALSE
    /\ selectedVolunteer' = NoSelection
    /\ UNCHANGED <<dashboardVars, sqlVars, overlapVars, loading, alerts, captain_teams,
                   evaluation_rows, teamEvents, selectedEvent, evaluated, submitting, lookups,
                   submission>>

NextAvaliar ==
    \/ fetchData
    \/ \E e \in EventIds : handleSelectEvent(e)
    \/ \E lookup \in lookups : fetchEvaluations(lookup)
    \/ \E vol \in {"v1", "v2"} : handleSelectVolunteer(vol)
    \/ handleSubmit
    \/ handleSubmit_insert
    \/ handleSubmit_after
    \/ setSelectedVolunteer_null

SpecAvaliar == InitAvaliar /\ [][NextAvaliar]_vars

(***************************************************************************)
(* Properties of the reconciliation (SpecReconcile)                        *)
(***************************************************************************)
\* The normalised records of the three sources, as the store holds them.
sourceRecords ==
    allPossibleParticipations(team_members, registrationsQuery(event_registrations),
                              teams, now)
Range(f) == {f[i] : i \in DOMAIN f}
fetched == runs["mount"].pc = "done"
isDirect(p) == p.id[1] = "reg"
isCaptain(p) == p.role_in_team = "captain"
isMember(p) == p.id[1] = "tm" /\ p.role_in_team = "volunteer" /\ p.team.name # DirectTeamName
recordsOf(e) == {p \in Range(sourceRecords) : p.team.event = e}
entriesOf(e) == {p \in Range(myParticipations) : p.team.event = e}

\* C1: the participation list stored by fetchVolunteerData holds at most one
\* record per event id, whatever the three source collections contain.
C1_NoDuplicates ==
    fetched =>
        \A i, j \in 1..Len(myParticipations) :
            i # j => myParticipations[i].team.event # myParticipations[j].team.event

C1_Witness ==
    /\ fetched
    /\ \E e \in EventIds : Cardinality(recordsOf(e)) >= 2 /\ Cardinality(entriesOf(e)) = 1

\* C2: when the sources hold a captain record and a direct registration of the
\* same event, the entry of that event is a captain record of the sources.
C2_PriorityLaw ==
    fetched =>
        \A e \in EventIds :
            (/\ \E p \in recordsOf(e) : isCaptain(p)
             /\ \E p \in recordsOf(e) : isDirect(p))
            => /\ entriesOf(e) # {}
               /\ \A p \in entriesOf(e) : isCaptain(p) /\ p \in recordsOf(e)

C2_Witness ==
    /\ fetched
    /\ Len(sourceRecords) >= 3
    /\ \E e \in EventIds :
        /\ \E p \in recordsOf(e) : isCaptain(p)
        /\ \E p \in recordsOf(e) : isDirect(p)
        /\ \E p \in entriesOf(e) : isCaptain(p)

\* C3: when the sources hold a volunteer membership of a real team and a
\* direct registration of the same event, and no captain record of it, the
\* entry of that event is the membership record.
C3_RealTeamOverDirect ==
    fetched =>
        \A e \in EventIds :
            (/\ \E p \in recordsOf(e) : isMember(p)
             /\ \E p \in recordsOf(e) : isDirect(p)
             /\ ~ \E p \in recordsOf(e) : isCaptain(p))
            => /\ entriesOf(e) # {}
               /\ \A p \in entriesOf(e) : isMember(p) /\ p \in recordsOf(e)

C3_Witness ==
    /\ fetched
    /\ \E e \in EventIds :
        /\ \E p \in recordsOf(e) : isMember(p)
        /\ \E p \in recordsOf(e) : isDirect(p)
        /\ ~ \E p \in recordsOf(e) : isCaptain(p)
        /\ \E p \in entriesOf(e) : isMember(p)

\* C4: when two records of one event tie at the highest priority of that event
\* and one of them is active and the other is not, the entry of the event is
\* an active one, whichever of the two comes first.
C4_ActiveWinsTie ==
    fetched =>
        \A e \in EventIds :
            \A p, q \in recordsOf(e) :
                (/\ getPriority(p) = getPriority(q)
                 /\ \A r \in recordsOf(e) : getPriority(r) <= getPriority(p)
                 /\ p.status = "active"
                 /\ q.status # "active")
                => \A x \in entriesOf(e) : x.status = "active"

C4_Witness ==
    /\ fetched
    /\ \E e \in EventIds :
        \E p, q \in recordsOf(e) :
            /\ getPriority(p) = getPriority(q)
            /\ p.status = "active"
            /\ q.status # "active"

(***************************************************************************)
(* Properties of the statistics and of can_leave (SpecReconcile)           *)
(***************************************************************************)
statsComputed == fetched /\ errorsLogged = {}
\* The local calendar day of the current instant.
today == LocalDay(now, tz)
entryIndices == 1..Len(myParticipations)
dayOf(p) == EventDay[p.team.event]

\* C5: activeParticipations counts the active entries whose event is dated
\* today or later; completedEvents counts the entries whose event is dated
\* strictly before today.
C5_StatsByDay ==
    statsComputed =>
        /\ stats.activeParticipations =
              Cardinality({i \in entryIndices :
                              /\ myParticipations[i].status = "active"
                              /\ dayOf(myParticipations[i]) >= today})
        /\ stats.completedEvents =
              Cardinality({i \in entryIndices : dayOf(myParticipations[i]) < today})

\* The number of entries of category c, and the position of its first entry.
entriesOfCategory(c) == {i \in entryIndices : CategoryOf(myParticipations[i]) = c}
firstSeen(c) == CHOOSE i \in entriesOfCategory(c) : \A j \in entriesOfCategory(c) : i <= j
categoriesSeen == {CategoryOf(myParticipations[i]) : i \in entryIndices}

\* C6: bestCategory is a category with the largest number of entries, the one
\* seen first among those that tie, and the empty string without entries.
C6_BestCategoryFirstSeen ==
    statsComputed =>
        IF categoriesSeen = {} THEN stats.bestCategory = ""
        ELSE /\ stats.bestCategory \in categoriesSeen
             /\ \A c \in categoriesSeen :
                    \/ Cardinality(entriesOfCategory(c))
                           < Cardinality(entriesOfCategory(stats.bestCategory))
                    \/ /\ Cardinality(entriesOfCategory(c))
                           = Cardinality(entriesOfCategory(stats.bestCategory))
                       /\ firstSeen(stats.bestCategory) <= firstSeen(c)

\* The status the claim calls active: for a direct registration, the row is
\* pending or confirmed; for a membership or captained team, status is active.
countsAsActive(p) ==
    IF isDirect(p)
    THEN event_registrations[p.registration_id].status \in {"pending", "confirmed"}
    ELSE p.status = "active"

\* C7: can_leave of a normalised record is true exactly when the record is
\* active and its event is not dated strictly before today.
C7_CanLeave ==
    fetched =>
        \A p \in Range(myParticipations) :
            p.can_leave <=> (countsAsActive(p) /\ dayOf(p) >= today)

\* C8: a source record whose event is null never enters the participation
\* list and never makes fetchVolunteerData throw, and every event of the other
\* records still has its entry.
C8_MissingEventDropped ==
    fetched =>
        /\ \A p \in Range(myParticipations) : p.team.event # NoEvent
        /\ errorsLogged = {}
        /\ stats.totalParticipations = Len(myParticipations)
        /\ \A e \in EventIds : recordsOf(e) # {} => entriesOf(e) # {}

C8_Witness ==
    /\ fetched
    /\ recordsOf(NoEvent) # {}
    /\ myParticipations # <<>>

(***************************************************************************)
(* Properties of the asynchronous steps (Spec)                             *)
(***************************************************************************)
HandlerMessages ==
    {"Erro ao processar sua solicitação. Tente novamente.", "Você saiu da equipe com sucesso!", "Sua inscrição foi cancelada com sucesso!", "Erro ao cancelar inscrição. Tente novamente.", "Inscrição cancelada com sucesso!", "Erro ao se inscrever no evento. Tente novamente.",
     "Você já está inscrito neste evento.", "Você já possui uma inscrição neste evento.", "Não há vagas disponíveis neste evento.", "Você foi inscrito com sucesso no evento!", "Sua inscrição no evento foi reativada com sucesso!"}

\* The list that reconciling the store gives when the queries in failed
\* answer nothing.
reconciledWithout(failed) ==
    finalParticipations(
        allPossibleParticipations(
            IF "team_members" \in failed THEN <<>> ELSE team_members,
            IF "event_registrations" \in failed THEN <<>>
                ELSE registrationsQuery(event_registrations),
            IF "teams" \in failed THEN <<>> ELSE teams,
            now))

\* C9: a run of fetchVolunteerData in which one of the three source queries
\* failed ends with the other two sources reconciled, with the failure shown
\* to the user, and without an exception.
C9_PartialFailure ==
    [][\A r \in RunIds :
          (/\ runs[r].pc = "evaluations"
           /\ runs'[r].pc = "done"
           /\ Cardinality(runs[r].failed) = 1)
          => /\ myParticipations' = reconciledWithout(runs[r].failed)
             /\ "Erro ao carregar dados do voluntário" \notin errorsLogged'
             /\ alerts' \ HandlerMessages # {}]_vars

\* C10: the refresh starts only when the store has acknowledged the write of
\* the handler; the list changes only in the reconciliation step of a run; a
\* rejected write changes neither the store nor the list and starts no run.
C10_FireAndConfirm ==
    [][/\ (runs["refresh"].pc = "idle" /\ runs'["refresh"].pc # "idle")
          => (handler.pc = "acked" /\ handler.result = "ok")
       /\ myParticipations' # myParticipations
          => \E r \in RunIds : runs[r].pc = "teams" /\ runs'[r].pc = "evaluations"
       /\ storeVars' # storeVars
          => (handler.pc = "write" /\ handler'.pc = "acked" /\ handler'.result = "ok")
       /\ (handler.pc = "acked" /\ handler.result # "ok")
          => (runs' = runs /\ myParticipations' = myParticipations
              /\ storeVars' = storeVars)]_vars

C10_Witness ==
    /\ handler.pc = "refetch"
    /\ handler.result = "ok"
    /\ runs["refresh"].pc = "done"
    /\ \E i \in 1..Len(event_registrations) : event_registrations[i].status = "cancelled"

\* C11: when the store rejects the write of processEventRegistration, the
\* uniqueness violation (23505) shows the 'already registered' message and
\* every other rejection the generic one, and processEventRegistration returns
\* to its caller: handleAcceptTerms goes on to close the modal instead of
\* showing the message of its own catch.
C11_WriteFailureMessages ==
    [][(/\ handler.pc = "acked"
        /\ handler.name = "processEventRegistration"
        /\ handler.result # "ok"
        /\ handler'.pc # "acked")
       => /\ alerts' = alerts \cup {IF handler.result = "23505"
                                    THEN "Você já está inscrito neste evento." ELSE "Erro ao se inscrever no evento. Tente novamente."}
          /\ handler.result = "23505" => "Erro ao se inscrever no evento. Tente novamente." \notin alerts'
          /\ handler.result # "23505" => "Você já está inscrito neste evento." \notin alerts'
          /\ "Erro ao aceitar termos. Tente novamente." \notin alerts'
          /\ handler'.pc = IF handler.caller = "handleAcceptTerms" THEN "close" ELSE "idle"]_vars

\* The store has rejected an insert as a duplicate and the message is shown.
C11_Witness == "Você já está inscrito neste evento." \in alerts

\* C12: with the three source collections empty and no evaluation, the
\* reconciled list is empty, every statistic is zero (bestCategory the empty
\* string) and no error is raised.
C12_EmptyInput ==
    (/\ fetched
     /\ team_members = <<>> /\ event_registrations = <<>> /\ teams = <<>>
     /\ evaluations = <<>>)
    => /\ myParticipations = <<>>
       /\ stats.totalParticipations = 0
       /\ stats.activeParticipations = 0
       /\ stats.completedEvents = 0
       /\ stats.averageRating = 0
       /\ stats.totalEvaluations = 0
       /\ stats.bestCategory = ""
       /\ errorsLogged = {}
       /\ loading = FALSE

\* The run over the empty store has ended.
C12_Witness ==
    /\ fetched
    /\ team_members = <<>> /\ event_registrations = <<>> /\ teams = <<>>
    /\ evaluations = <<>>
    /\ stats.totalEvaluations = 0

RECURSIVE SumOver(_, _)
SumOver(f, S) ==
    IF S = {} THEN 0
    ELSE LET i == CHOOSE j \in S : TRUE IN f[i] + SumOver(f, S \ {i})
Abs(x) == IF x < 0 THEN 0 - x ELSE x

\* C13: averageRating, counted in tenths, is the tenth nearest to the
\* arithmetic mean of the ratings received (4, 5, 3 give 4.0), and 0 when
\* there is no evaluation.
C13_AverageRating ==
    statsComputed =>
        LET n   == Len(evaluations)
            sum == SumOver(evaluations, 1..n)
        IN  /\ n = 0 => stats.averageRating = 0
            /\ n > 0 => 2 * Abs(10 * sum - stats.averageRating * n) <= n
            /\ evaluations = <<4, 5, 3>> => stats.averageRating = 40

\* (1..MaxRating) 4, 5, 5 have the mean 4.66..., shown as 4.7.
C13_Witness ==
    /\ statsComputed
    /\ evaluations = <<4, 5, 5>>
    /\ stats.averageRating = 47

\* C14: in the VolunteerDashboard the participation list set by
\* fetchVolunteerData holds at most one record per event, also when the user
\* has a team membership and a pending or confirmed direct registration of
\* the same event.
C14_VolunteerNoDuplicates ==
    fetched =>
        \A e \in EventIds :
            Cardinality({i \in 1..Len(myParticipations) :
                            myParticipations[i].team.event = e}) <= 1

\* The user has at most one registration row per event.
OneRowPerEvent == \A e \in EventIds : Cardinality(registrationsOf(e)) <= 1
\* The store answers the write of processEventRegistration.
registerWriteAnswered ==
    /\ handler.pc = "write"
    /\ handler.name = "processEventRegistration"
    /\ handler'.pc = "acked"

termsCleared(e) ==
    \E i \in registrationsOf(e) :
        event_registrations[i].status = "cancelled" /\ i \notin terms_accepted
\* processEventRegistration is running, from its first read to its write.
registering ==
    handler.name = "processEventRegistration"
    /\ handler.pc \in {"responses", "existing", "count", "write", "acked"}

onAcceptCalled ==
    /\ handler.pc = "idle"
    /\ handler'.pc = "responses"
    /\ handler'.caller = "handleAcceptTerms"
\* The question has a response that is not empty.
hasAnswer(question) ==
    \E i \in 1..Len(formResponses) :
        /\ formResponses[i].questionId = question.id
        /\ IF question.question_type = "text"
           THEN formResponses[i].textResponse \notin {Undefined, "", " "}
           ELSE Len(formResponses[i].selectedOptions) >= 1

\* C17: onAccept is called only with the checkbox checked, the content
\* scrolled to its end and a non-empty response to every required question
\* (text that is not blank, or at least one selected option); the checkbox
\* is never checked before the scrolled-to-end flag is set.
C17_AcceptOnlyWhenComplete ==
    /\ [](hasAccepted => hasScrolledToEnd)
    /\ [][/\ onAcceptCalled =>
               (/\ termsModal.isOpen
                /\ hasAccepted
                /\ hasScrolledToEnd
                /\ \A i \in 1..Len(termsModal.questions) :
                      termsModal.questions[i].is_required
                      => hasAnswer(termsModal.questions[i]))
          /\ ((~hasAccepted /\ hasAccepted') => hasScrolledToEnd)]_vars

\* onAccept has been called with the response to a required question.
C17_Witness ==
    /\ handler.pc = "responses"
    /\ handler.caller = "handleAcceptTerms"
    /\ \E i \in 1..Len(termsModal.questions) : termsModal.questions[i].is_required
    /\ Len(formResponses) > 0

\* C18: whenever the modal opens, the accepted flag and the scrolled-to-end
\* flag are cleared and the responses emptied, and the form counts as valid
\* only if no question is required: what an earlier opening left behind does
\* not enable onAccept.
C18_ResetOnOpen ==
    [][(~termsModal.isOpen /\ termsModal'.isOpen) =>
          /\ ~hasAccepted'
          /\ ~hasScrolledToEnd'
          /\ formResponses' = <<>>
          /\ (formIsValid' =>
                \A i \in 1..Len(termsModal'.questions) :
                    ~termsModal'.questions[i].is_required)]_vars

\* handleQuickRegister is about to open the modal again while the component
\* still holds the acceptance, the scroll and the answers of an earlier opening.
C18_Witness ==
    /\ handler.pc = "open"
    /\ ~termsModal.isOpen
    /\ hasAccepted /\ hasScrolledToEnd /\ formIsValid
    /\ Len(formResponses) > 0

C20_CountMatchesRows ==
    \A e \in EventIds :
        current_volunteers[e]
            = Cardinality({r \in registrations : r.event_id = e})

(***************************************************************************)
(* Further properties of the reconciliation (SpecReconcile)                *)
(***************************************************************************)
\* The priority of a source record by the collection it comes from: captain
\* 3, member of a real team 2, direct registration 1.
sourcePriority(p) == IF isCaptain(p) THEN 3 ELSE IF isDirect(p) THEN 1 ELSE 2

\* C22: the entry of every event of the participation list has the highest
\* priority (captain 3, real-team member 2, direct registration 1) among the
\* source records of that event, in whatever order the rows of the three
\* collections arrive.
C22_MaximalPriority ==
    fetched =>
        \A x \in Range(myParticipations) :
            \A p \in recordsOf(x.team.event) : sourcePriority(x) >= sourcePriority(p)

\* One event has a record of each priority and its entry is the captain record.
C22_Witness ==
    /\ fetched
    /\ \E e \in EventIds :
        /\ {sourcePriority(p) : p \in recordsOf(e)} = {1, 2, 3}
        /\ \A x \in entriesOf(e) : sourcePriority(x) = 3

\* C23: every event id of a source record whose nested event is not null has
\* an entry in the participation list, and every entry of the list is one of
\* the normalised source records, with an event.
C23_NothingLostNothingInvented ==
    fetched =>
        /\ \A p \in Range(sourceRecords) :
              p.team.event # NoEvent => entriesOf(p.team.event) # {}
        /\ \A i \in 1..Len(myParticipations) :
              /\ myParticipations[i].team.event # NoEvent
              /\ \E j \in 1..Len(sourceRecords) : sourceRecords[j] = myParticipations[i]

\* The sources hold records of two events and a record without event.
C23_Witness ==
    /\ fetched
    /\ \A e \in EventIds : recordsOf(e) # {}
    /\ recordsOf(NoEvent) # {}
    /\ Len(myParticipations) = Cardinality(EventIds)

\* C24: no participation counts both as active and as completed: the two
\* counts together never exceed the number of participations.
C24_ActiveCompletedDisjoint ==
    statsComputed =>
        stats.activeParticipations + stats.completedEvents <= stats.totalParticipations

(***************************************************************************)
(* Properties of the two cancel paths (SpecRegistered)                     *)
(***************************************************************************)
\* processEventRegistration issues its insert or its reactivation.
registrationWriteIssued ==
    /\ handler.pc = "count"
    /\ handler'.pc = "write"
    /\ handler'.write[1] \in {"insert_registration", "reactivate_registration"}

\* C27: for an event with active terms, every registration write (insert or
\* reactivation) is issued by the processEventRegistration that an acceptance
\* of the terms modal started, hence after an acceptance later than the last
\* cancellation, whether handleCancelRegistration or handleLeaveTeam cancelled.
C27_WriteOnlyAfterAcceptance ==
    [][(registrationWriteIssued /\ EventHasTerms[handler.event])
       => handler.caller = "handleAcceptTerms"]_vars

(***************************************************************************)
(* Properties of overlapping registrations (SpecOverlap)                   *)
(***************************************************************************)
\* C25: whatever the interleaving of the calls of processEventRegistration
\* of different users for one event, the confirmed registrations of the
\* event never exceed its max_volunteers.
C25_CapacityRespected == activeRegistrations <= max_volunteers

\* The call p ended with a registration written.
registered(p) == procs[p].pc = "done" /\ procs[p].alert \in {"Você foi inscrito com sucesso no evento!", "Sua inscrição no evento foi reativada com sucesso!"}

\* C26: when two calls of processEventRegistration of one user for one event
\* have both ended, the user has at most one row; if one call registered the
\* user, the row is confirmed, and the other call, unless a query of it
\* failed, showed an 'already registered' message.
C26_DoubleClick ==
    \A p, q \in {"p1", "p2"} :
        (/\ p # q
         /\ procs[p].user = procs[q].user
         /\ procs[q].pc = "done"
         /\ registered(p))
        => /\ Cardinality(rowsOfUser(procs[p].user)) = 1
           /\ \A i \in rowsOfUser(procs[p].user) :
                 all_event_registrations[i].status = "confirmed"
           /\ procs[q].alert \in {"Você já está inscrito neste evento.", "Você já possui uma inscrição neste evento.", "Erro ao se inscrever no evento. Tente novamente."}

(***************************************************************************)
(* Properties of overlapping runs of fetchVolunteerData (SpecRefresh)      *)
(***************************************************************************)
\* No handler and no run of fetchVolunteerData is in progress.
quiescent ==
    /\ runs["mount"].pc = "done"
    /\ \A r \in RunIds : runs[r].pc \in {"idle", "done"}
    /\ handler.pc = "idle"
    /\ secondHandler.pc = "idle"

\* C29: when the runs of fetchVolunteerData have ended, the list and the
\* statistics on display are those of the run that started last.  Every run
\* starts after the write of its handler, so the run that started last has
\* read the store as it is now: the display is the reconciliation of the
\* current rows, never the result of an older run that ended later.
C29_LastRunWins ==
    quiescent =>
        /\ myParticipations = finalParticipations(sourceRecords)
        /\ stats = computeStats(finalParticipations(sourceRecords), evaluations, now, tz)

(***************************************************************************)
(* Properties of the page AvaliarEquipe (SpecAvaliar)                      *)
(***************************************************************************)
\* The row of captain_teams a team event was made from.
teamRowsOf(te) ==
    {i \in 1..Len(captain_teams) :
        /\ captain_teams[i].id = te.team_id
        /\ captain_teams[i].captain_id = "me"
        /\ captain_teams[i].event # NoTeamEvent
        /\ captain_teams[i].event.id = te.event_id
        /\ captain_teams[i].event.status = "completed"}
\* The volunteer is an active member, with role volunteer, of the team row.
offerable(vol, i) ==
    /\ vol \in {"v1", "v2"}
    /\ \E j \in 1..Len(captain_teams[i].members) :
          /\ captain_teams[i].members[j].user = vol
          /\ captain_teams[i].members[j].role_in_team = "volunteer"
          /\ captain_teams[i].members[j].status = "active"
\* A team event offers only what the claim allows.
wellOffered(te) ==
    /\ teamRowsOf(te) # {}
    /\ \A j \in 1..Len(te.members) : \E i \in teamRowsOf(te) : offerable(te.members[j], i)

\* C21: the page offers only teams of the captain whose event is completed,
\* and of them only the members with role volunteer, status active and a
\* user; the answer to a submission marks the volunteer when the insert
\* succeeded and leaves the marks as they are when it failed, and in both
\* cases submitting is false afterwards.
C21_OffersAndSubmits ==
    /\ [](/\ \A k \in 1..Len(teamEvents) : wellOffered(teamEvents[k])
          /\ selectedEvent # NoSelectedEvent => wellOffered(selectedEvent)
          /\ selectedVolunteer # NoSelection =>
                \E k \in 1..Len(teamEvents) :
                    \E j \in 1..Len(teamEvents[k].members) :
                        teamEvents[k].members[j] = selectedVolunteer)
    /\ [][(submission # NoSubmission /\ submission' = NoSubmission) =>
             /\ submitting' = FALSE
             /\ submission.result = "ok" =>
                   /\ submission.volunteer_id \in evaluated'
                   /\ [volunteer_id |-> submission.volunteer_id,
                       event_id     |-> submission.event_id,
                       team_id      |-> submission.team_id] \in evaluation_rows
             /\ submission.result # "ok" => evaluated' = evaluated]_vars

\* A failed submission has been answered: the volunteer is still selected and
\* not marked, and the page is ready for another attempt.
C21_Witness ==
    /\ "Erro ao registrar avaliação." \in alerts
    /\ submission = NoSubmission
    /\ submitting = FALSE
    /\ selectedVolunteer # NoSelection
    /\ selectedVolunteer \notin evaluated
    /\ Len(teamEvents) = 2

\* C28: once no lookup of evaluations is pending, the marks are volunteers
\* evaluated for the selected event and team.
C28_EvaluatedOfSelection ==
    (lookups = {} /\ submission = NoSubmission /\ selectedEvent # NoSelectedEvent) =>
        \A vol \in evaluated :
            [volunteer_id |-> vol, event_id |-> selectedEvent.event_id,
             team_id |-> selectedEvent.team_id] \in evaluation_rows

====
